---------------------------- MODULE Spec2Model ----------------------------
(***************************************************************************)
(* A model of the medstat analysis core (src/medstat/analysis) and of the  *)
(* router handlers in front of it (src/medstat/routers).                   *)
(*                                                                         *)
(* Every analysis is a pure function of its request, so the state is the   *)
(* request being served (req), the response or exception it ended in (res) *)
(* and the position of the server (pc).  One action per handler: it draws  *)
(* a request from a bounded set and stores the whole result.               *)
(*                                                                         *)
(* Floating point numbers are modelled by exact rationals [n, d]; values   *)
(* that are logarithms, square roots or distribution tails of a rational   *)
(* are kept as a tagged record of their argument.  An absent value (None)  *)
(* is the empty sequence and a present value v is <<v>>.                   *)
(***************************************************************************)
EXTENDS Integers, Sequences, FiniteSets, TLC

VARIABLES pc, req, res

vars == <<pc, req, res>>

----------------------------------------------------------------------------
(* Bounds of the model. *)

\* _km_estimate: observations per call, and the largest time value
MaxKmObs == 4
MaxKmTime == 2
\* run_kaplan_meier: observations per request, and the largest time value
MaxObs == 3
MaxTime == 1
\* survival, two-arm requests: observations per arm
MaxArmObs == 2

\* meta-analysis: studies per request, the largest yi and the largest sei
MaxStudies == 2
MaxYi == 3
MaxSei == 2
\* _prepare_data: studies per call and the size of the larger arm
MaxTables == 2
ArmSize == 3
\* sample_size: the largest effect size, mean and sd, the number of steps
\* the proportions divide [0, 1] into, and the largest allocation ratio
MaxValue == 1
PSteps == 2
MaxRatio == 1
\* _threshold_performance: observations per call and the largest marker value
MaxPerfObs == 3
MaxMarker == 2
\* run_roc_analysis: observations per call
MaxRocObs == 4
\* run_anova: groups per call, and the largest observation
MaxGroups == 3
MaxGroupValue == 1
\* run_chi_square: rows and columns of the table, and the largest cell
MaxDim == 3
MaxChiCell == 2
\* run_incidence_rate: the largest event count and person-time
MaxEvents == 2
MaxPersonTime == 2
\* two invocations at once: observations of a survival call, studies of a
\* meta-analysis call
MaxPairObs == 2
MaxPairStudies == 2
\* _prepare_data and run_meta_analysis on studies of several shapes: studies
\* per call
MaxShapedStudies == 3
MaxShapedPrepared == 2
\* two_by_two: the largest cell count
MaxCell == 2
\* logistic: lengths up to LogisticMinObs + LenSlack, and predictor columns
LenSlack == 1
MaxPredictors == 2

----------------------------------------------------------------------------
(* Optional values and exact rational arithmetic. *)

None == <<>>
Some(v) == <<v>>
IsNone(o) == o = <<>>
Val(o) == o[1]

Abs(x) == IF x < 0 THEN 0 - x ELSE x

RECURSIVE GCD(_, _)
GCD(a, b) == IF b = 0 THEN a ELSE GCD(b, a % b)

\* the rational n/d in lowest terms with a positive denominator (d # 0)
Rat(n, d) ==
  LET g == GCD(Abs(n), Abs(d))
      s == IF d < 0 THEN 0 - 1 ELSE 1
  IN [n |-> (s * n) \div g, d |-> (s * d) \div g]

R0 == [n |-> 0, d |-> 1]
R1 == [n |-> 1, d |-> 1]
RInt(k) == [n |-> k, d |-> 1]

\* sums and products cancel common factors first, to keep the terms small
RAdd(x, y) ==
  LET g == GCD(x.d, y.d)
  IN Rat(x.n * (y.d \div g) + y.n * (x.d \div g), (x.d \div g) * y.d)
RNeg(x) == [n |-> 0 - x.n, d |-> x.d]
RSub(x, y) == RAdd(x, RNeg(y))
RMul(x, y) ==
  LET g1 == GCD(Abs(x.n), y.d)
      g2 == GCD(Abs(y.n), x.d)
  IN IF x.n = 0 \/ y.n = 0 THEN [n |-> 0, d |-> 1]
     ELSE [n |-> (x.n \div g1) * (y.n \div g2), d |-> (x.d \div g2) * (y.d \div g1)]
\* y # 0
RInv(y) == IF y.n < 0 THEN [n |-> 0 - y.d, d |-> 0 - y.n] ELSE [n |-> y.d, d |-> y.n]
RDiv(x, y) == RMul(x, RInv(y))
RLt(x, y) == x.n * y.d < y.n * x.d
RLe(x, y) == x.n * y.d <= y.n * x.d
RMax(x, y) == IF RLt(x, y) THEN y ELSE x
RMin(x, y) == IF RLt(y, x) THEN y ELSE x

\* np.clip(x, 0.0, 1.0)
Clip01(x) == RMax(R0, RMin(R1, x))

Min(S) == CHOOSE x \in S : \A y \in S : x <= y

\* the elements of a finite set of integers in ascending order (np.unique)
RECURSIVE SortedSeq(_)
SortedSeq(S) == IF S = {} THEN <<>> ELSE <<Min(S)>> \o SortedSeq(S \ {Min(S)})

\* the subsequence of s at the indices in I, in order (numpy boolean mask)
RECURSIVE Masked(_, _, _)
Masked(s, I, k) ==
  IF k > Len(s) THEN <<>>
  ELSE (IF k \in I THEN <<s[k]>> ELSE <<>>) \o Masked(s, I, k + 1)

\* the sequences of length k over S
SeqsOfLen(S, k) == [1..k -> S]

----------------------------------------------------------------------------
(* src/medstat/analysis/survival.py *)

\* survival.py:139 compares V with 1e-10 = 1 / (EpsRoot * EpsRoot)
EpsRoot == 100000

\* x < 1e-10 for a rational x, without forming 10^10:
\* n * 10^10 < d  <=>  n * 10^5 < ceil(d / 10^5)
LtEps(x) == x.n * EpsRoot < (x.d + EpsRoot - 1) \div EpsRoot

Half == [n |-> 1, d |-> 2]

\* The 95% CI of one step (survival.py:76-82): the log-log transform when
\* 0 < s < 1 and the Greenwood sum is positive, else the point itself.
KmCI(s, greenwood_sum) ==
  IF RLt(R0, s) /\ RLt(s, R1) /\ RLt(R0, greenwood_sum)
  THEN [kind |-> "loglog", s |-> s, g |-> greenwood_sum]
  ELSE [kind |-> "point", s |-> Clip01(s), g |-> R0]

\* unique_event_times = np.unique(t[e == 1]): the distinct times that carry
\* an event, ascending
UniqueEventTimesAll(time, event) == SortedSeq({time[i] : i \in DOMAIN time})
UniqueEventTimes(time, event) ==
  SortedSeq({time[i] : i \in {j \in DOMAIN time : event[j] = 1}})

\* n_risk = int(np.sum(t >= et))
NRiskStrict(t, et) == Cardinality({i \in DOMAIN t : t[i] > et})
NRisk(t, et) == Cardinality({i \in DOMAIN t : t[i] >= et})

\* d = int(np.sum((t == et) & (e == 1)))
NDeaths(t, e, et) == Cardinality({i \in DOMAIN t : t[i] = et /\ e[i] = 1})

\* the test of the median scan: sv <= 0.5
CrossesStrict(sv) == RLt(sv, Half)
Crosses(sv) == RLe(sv, Half)

\* one pass of the loop of _km_estimate over the remaining event times
RECURSIVE KmLoop(_, _, _, _)
KmLoop(t, e, ets, st) ==
  IF ets = <<>> THEN st
  ELSE
    LET et == Head(ets)
        n_risk == NRisk(t, et)
        d == NDeaths(t, e, et)
    IN IF n_risk = 0 THEN KmLoop(t, e, Tail(ets), st)
       ELSE
         LET s == RMul(st.s, Rat(n_risk - d, n_risk))
             g == IF n_risk > d
                  THEN RAdd(st.greenwood_sum, Rat(d, n_risk * (n_risk - d)))
                  ELSE st.greenwood_sum
         IN KmLoop(t, e, Tail(ets),
              [s |-> s, greenwood_sum |-> g,
               step_times |-> Append(st.step_times, et),
               step_surv |-> Append(st.step_surv, Clip01(s)),
               step_ci |-> Append(st.step_ci, KmCI(s, g)),
               n_at_risk |-> Append(st.n_at_risk, n_risk),
               n_events |-> Append(st.n_events, d)])

\* Median survival: the time of the first step with survival <= 0.5
RECURSIVE KmMedian(_, _, _)
KmMedian(step_times, step_surv, i) ==
  IF i > Len(step_surv) THEN None
  ELSE IF Crosses(step_surv[i]) THEN Some(step_times[i])
  ELSE KmMedian(step_times, step_surv, i + 1)

\* _km_estimate(time, event).  The function sorts both arrays by time first
\* (lines 48-50); every later use of them is a count or a set of values,
\* which the order does not change.
KmEstimate(time, event) ==
  LET unique_event_times == UniqueEventTimes(time, event)
      st == KmLoop(time, event, unique_event_times,
              [s |-> R1, greenwood_sum |-> R0,
               step_times |-> <<0>>, step_surv |-> <<R1>>,
               step_ci |-> <<[kind |-> "point", s |-> R1, g |-> R0]>>,
               n_at_risk |-> <<>>, n_events |-> <<>>])
  IN [times |-> st.step_times,
      survival |-> st.step_surv,
      ci |-> st.step_ci,
      n_at_risk |-> st.n_at_risk,
      n_events |-> st.n_events,
      median_survival |-> KmMedian(st.step_times, st.step_surv, 1),
      n_total_events |-> Cardinality({i \in DOMAIN event : event[i] = 1})]

\* p = 1 - chi2.cdf(x, df=1): exactly 1 at x = 0, a tail value otherwise
Chi2Sf1(x) ==
  IF x = R0 THEN [kind |-> "exact", v |-> R1]
  ELSE [kind |-> "chi2_sf_df1", v |-> x]

\* O1 += d1: the deaths of group 1 at one event time
ObservedIncPooled(d1, d2) == d1 + d2
ObservedInc(d1, d2) == d1

\* the accumulation loop of _logrank_test (lines 120-137)
RECURSIVE LogrankLoop(_, _, _, _, _, _)
LogrankLoop(time, event, I1, I2, ets, acc) ==
  IF ets = <<>> THEN acc
  ELSE
    LET et == Head(ets)
        n1 == Cardinality({i \in I1 : time[i] >= et})
        n2 == Cardinality({i \in I2 : time[i] >= et})
        d1 == Cardinality({i \in I1 : time[i] = et /\ event[i] = 1})
        d2 == Cardinality({i \in I2 : time[i] = et /\ event[i] = 1})
        n == n1 + n2
        d == d1 + d2
    IN IF n = 0 THEN LogrankLoop(time, event, I1, I2, Tail(ets), acc)
       ELSE LogrankLoop(time, event, I1, I2, Tail(ets),
              [O1 |-> RAdd(acc.O1, RInt(ObservedInc(d1, d2))),
               E1 |-> RAdd(acc.E1, Rat(n1 * d, n)),
               V |-> IF n > 1
                     THEN RAdd(acc.V, Rat(n1 * n2 * d * (n - d), n * n * (n - 1)))
                     ELSE acc.V])

\* _logrank_test(time, event, group, groups)
LogrankTest(time, event, group, groups) ==
  LET mask1 == {i \in DOMAIN group : group[i] = groups[1]}
      mask2 == {i \in DOMAIN group : group[i] = groups[2]}
      event_times == UniqueEventTimes(time, event)
      acc == LogrankLoop(time, event, mask1, mask2, event_times,
                         [O1 |-> R0, E1 |-> R0, V |-> R0])
      diff == RSub(acc.O1, acc.E1)
      chi2 == RDiv(RMul(diff, diff), acc.V)
  IN IF LtEps(acc.V)
     THEN [chi2 |-> R0, p_value |-> [kind |-> "exact", v |-> R1],
           group1 |-> groups[1], group2 |-> groups[2],
           detailed |-> FALSE, locals |-> acc]
     ELSE [chi2 |-> chi2, p_value |-> Chi2Sf1(chi2),
           group1 |-> groups[1], group2 |-> groups[2],
           detailed |-> TRUE, locals |-> acc]

\* the log-rank test runs for exactly two groups:
\* len(unique_groups) == 2 and unique_groups[0] is not None
LogrankAppliesAtLeastTwo(unique_groups) ==
  Len(unique_groups) >= 2 /\ ~IsNone(unique_groups[1])
LogrankApplies(unique_groups) ==
  Len(unique_groups) = 2 /\ ~IsNone(unique_groups[1])

\* run_kaplan_meier(time, event, groups); groups is None or a list of labels
RunKaplanMeierResult(time, event, groups) ==
  LET g == IF IsNone(groups) THEN <<>> ELSE Val(groups)
      unique_groups == IF IsNone(groups) THEN <<None>>
                       ELSE [k \in 1..Cardinality({g[i] : i \in DOMAIN g}) |->
                               Some(SortedSeq({g[i] : i \in DOMAIN g})[k])]
      curve(grp) ==
        LET mask == IF IsNone(grp) THEN DOMAIN time
                    ELSE {i \in DOMAIN g : g[i] = Val(grp)}
            ti == Masked(time, mask, 1)
            ei == Masked(event, mask, 1)
        IN [label |-> grp, n |-> Len(ti), km |-> KmEstimate(ti, ei)]
  IN [curves |-> [k \in DOMAIN unique_groups |-> curve(unique_groups[k])],
      logrank |-> IF LogrankApplies(unique_groups)
                  THEN Some(LogrankTest(time, event, g,
                              <<Val(unique_groups[1]), Val(unique_groups[2])>>))
                  ELSE None]

----------------------------------------------------------------------------
(* src/medstat/analysis/epidemiology.py, src/medstat/routers/epidemiology.py *)

\* x > 1e-10 for a rational x >= 0:  n * 10^5 > floor(d / 10^5)
GtEps(x) == x.n * EpsRoot > x.d \div EpsRoot

RAbs(x) == [n |-> Abs(x.n), d |-> x.d]

\* what a call ends in: a returned value or a raised exception
Returned(v) == [exc |-> None, out |-> Some(v)]
Raised(name) == [exc |-> Some(name), out |-> None]

\* log_or_se = sqrt(1/af + 1/bf + 1/cf + 1/df_) on Python floats: the first
\* zero operand raises ZeroDivisionError
WoolfSeRaises(a, b, c, d) == a = 0 \/ b = 0 \/ c = 0 \/ d = 0

\* scipy's chi2_contingency raises ValueError when an expected frequency is
\* zero, that is when a row or a column of the table sums to zero
Chi2ContingencyRaises(a, b, c, d) ==
  a + b = 0 \/ c + d = 0 \/ a + c = 0 \/ b + d = 0

\* run_two_by_two(a, b, c, d)
RunTwoByTwo(a, b, c, d) ==
  LET n == a + b + c + d
      p1 == IF a + b > 0 THEN Rat(a, a + b) ELSE R0
      p0 == IF c + d > 0 THEN Rat(c, c + d) ELSE R0
      rd == RSub(p1, p0)
      or_branch == b > 0 /\ c > 0
      rr_branch == RLt(R0, p0) /\ RLt(R0, p1)
      or_val == IF or_branch THEN Some(Rat(a * d, b * c)) ELSE None
      or_ci == IF or_branch
               THEN Some([kind |-> "woolf", a |-> a, b |-> b, c |-> c, d |-> d])
               ELSE None
      rr_val == IF rr_branch THEN Some(RDiv(p1, p0)) ELSE None
      rr_ci == IF rr_branch
               THEN Some([kind |-> "katz", a |-> a, b |-> b, c |-> c, d |-> d])
               ELSE None
  IN IF or_branch /\ WoolfSeRaises(a, b, c, d) THEN Raised("ZeroDivisionError")
     ELSE IF Chi2ContingencyRaises(a, b, c, d) THEN Raised("ValueError")
     ELSE Returned(
       [table |-> [a |-> a, b |-> b, c |-> c, d |-> d, n |-> n],
        risk_exposed |-> p1,
        risk_unexposed |-> p0,
        risk_difference |-> rd,
        odds_ratio |-> [value |-> or_val, ci_95 |-> or_ci],
        relative_risk |-> [value |-> rr_val, ci_95 |-> rr_ci],
        nnt |-> [value |-> IF GtEps(RAbs(rd)) THEN Some(RDiv(R1, RAbs(rd))) ELSE None,
                 type |-> IF RLt(rd, R0) THEN "NNT (benefit)"
                          ELSE IF RLt(R0, rd) THEN "NNH (harm)" ELSE "N/A"],
        attributable_risk_exposed |->
          IF RLt(R0, p1) THEN Some(RDiv(RSub(p1, p0), p1)) ELSE None])

\* the response of a router handler: a status and, for 200, the body
Response(status, called, r) ==
  [status |-> status, core_called |-> called, exc |-> r.exc, body |-> r.out]
NotCalled == [exc |-> None, out |-> None]

\* two_by_two(req): 400 for a negative cell or an all-zero table, 500 for
\* any exception of the core
TwoByTwoHandler(a, b, c, d) ==
  IF a < 0 \/ b < 0 \/ c < 0 \/ d < 0 THEN Response(400, FALSE, NotCalled)
  ELSE IF a + b + c + d = 0 THEN Response(400, FALSE, NotCalled)
  ELSE LET r == RunTwoByTwo(a, b, c, d)
       IN Response(IF IsNone(r.exc) THEN 200 ELSE 500, TRUE, r)

\* routers/epidemiology.py:51
LogisticMinObs == 10

\* What the data make of smf.logit(...).fit(disp=False, maxiter=200):
\* "converged"      the optimiser converges within maxiter
\* "not_converged"  maxiter is reached; statsmodels warns and returns the
\*                  last iterate as a fitted result
\* "fit_raises"     the fit raises (singular matrix, perfect separation)
FitKinds == {"converged", "not_converged", "fit_raises"}

\* run_logistic_regression(outcome, predictors), predictors not empty.
\* n_out is len(outcome), cols the lengths of the predictor columns.
\* pd.DataFrame(predictors) raises ValueError for columns of unequal
\* length and df["__outcome__"] = outcome raises ValueError for an outcome
\* of another length; both stand before the try block.
RunLogisticRegression(n_out, cols, fit) ==
  IF \E i, j \in DOMAIN cols : cols[i] # cols[j] THEN Raised("ValueError")
  ELSE IF cols[1] # n_out THEN Raised("ValueError")
  ELSE IF fit = "fit_raises"
       THEN Returned([n |-> n_out, error |-> Some("fit"), coefficients |-> None])
       ELSE Returned([n |-> n_out, error |-> None,
                      coefficients |-> Some([converged |-> fit = "converged",
                                             n_params |-> Len(cols) + 1])])

\* logistic(req): 400 below 10 observations or without predictors, 500 for
\* any exception of the core
LogisticHandler(n_out, cols, fit) ==
  IF n_out < LogisticMinObs THEN Response(400, FALSE, NotCalled)
  ELSE IF cols = <<>> THEN Response(400, FALSE, NotCalled)
  ELSE LET r == RunLogisticRegression(n_out, cols, fit)
       IN Response(IF IsNone(r.exc) THEN 200 ELSE 500, TRUE, r)

----------------------------------------------------------------------------
(* src/medstat/analysis/meta.py, src/medstat/routers/meta.py *)

\* A number held by a study record after normalisation: a rational, or the
\* logarithm or square root of one.
Num(r) == [k |-> "rat", v |-> r]
LogOf(r) == [k |-> "log", v |-> r]
SqrtOf(r) == [k |-> "sqrt", v |-> r]

Has(s, key) == key \in DOMAIN s

\* 2 * 1.96
TwoZ == [n |-> 98, d |-> 25]

\* the continuity correction is due: some cell of the table is zero
\* (e1 == 0 or e1 == n1 or e2 == 0 or e2 == n2)
NeedsCorrectionEventsOnly(e1, n1, e2, n2) == e1 = 0 \/ e2 = 0
NeedsCorrection(e1, n1, e2, n2) == e1 = 0 \/ e1 = n1 \/ e2 = 0 \/ e2 = n2

\* the four cells a, b_val, c, d of meta.py:166-169
Cells(e1, n1, e2, n2) ==
  LET h == [n |-> 1, d |-> 2]
      a == IF NeedsCorrection(e1, n1, e2, n2) THEN RAdd(RInt(e1), h) ELSE RInt(e1)
      b_val == RAdd(RInt(n1 - e1), IF a # RInt(e1) THEN h ELSE R0)
      c == IF NeedsCorrection(e1, n1, e2, n2) THEN RAdd(RInt(e2), h) ELSE RInt(e2)
      d == RAdd(RInt(n2 - e2), IF c # RInt(e2) THEN h ELSE R0)
  IN [a |-> a, b |-> b_val, c |-> c, d |-> d]

\* lines 170-180: the entry of an event-count study with cells t, or the
\* ValueError of a measure other than OR and RR
TableEntry(name, t, measure) ==
  IF measure = "OR"
  THEN Returned(
         [name |-> name,
          yi |-> LogOf(RDiv(RMul(t.a, t.d), RMul(t.b, t.c))),
          sei |-> SqrtOf(RAdd(RAdd(RInv(t.a), RInv(t.b)), RAdd(RInv(t.c), RInv(t.d)))),
          cells |-> Some(t)])
  ELSE IF measure = "RR"
  THEN Returned(
         [name |-> name,
          yi |-> LogOf(RDiv(RDiv(t.a, RAdd(t.a, t.b)), RDiv(t.c, RAdd(t.c, t.d)))),
          sei |-> SqrtOf(RAdd(RDiv(t.b, RMul(t.a, RAdd(t.a, t.b))),
                              RDiv(t.d, RMul(t.c, RAdd(t.c, t.d))))),
          cells |-> Some(t)])
  ELSE Raised("ValueError")

\* the pass with the (effect, lower_ci, upper_ci) shape tried first
PrepareStudyCiFirst(s, measure, name) ==
  IF Has(s, "effect") /\ Has(s, "lower_ci") /\ Has(s, "upper_ci")
  THEN IF measure \in {"OR", "RR"}
       THEN Returned([name |-> name, yi |-> LogOf(RInt(s.effect)),
                      sei |-> [k |-> "log_ci", lo |-> s.lower_ci, hi |-> s.upper_ci],
                      cells |-> None])
       ELSE Returned([name |-> name, yi |-> Num(RInt(s.effect)),
                      sei |-> Num(RDiv(RInt(s.upper_ci - s.lower_ci), TwoZ)),
                      cells |-> None])
  ELSE IF Has(s, "yi") /\ Has(s, "sei")
  THEN Returned([name |-> name, yi |-> Num(RInt(s.yi)), sei |-> Num(RInt(s.sei)),
                 cells |-> None])
  ELSE IF Has(s, "events_1") /\ Has(s, "n_1") /\ Has(s, "events_2") /\ Has(s, "n_2")
  THEN TableEntry(name, Cells(s.events_1, s.n_1, s.events_2, s.n_2), measure)
  ELSE [exc |-> None, out |-> None]

\* One pass of the loop of _prepare_data: the entry a study s adds to result
\* (with the cells of an event-count study beside it), no entry for a study
\* of no known shape, ValueError for an event-count study under a measure
\* other than OR and RR.
PrepareStudy(s, measure, name) ==
  IF Has(s, "yi") /\ Has(s, "sei")
  THEN Returned([name |-> name, yi |-> Num(RInt(s.yi)), sei |-> Num(RInt(s.sei)),
                 cells |-> None])
  ELSE IF Has(s, "effect") /\ Has(s, "lower_ci") /\ Has(s, "upper_ci")
  THEN IF measure \in {"OR", "RR"}
       THEN Returned([name |-> name, yi |-> LogOf(RInt(s.effect)),
                      sei |-> [k |-> "log_ci", lo |-> s.lower_ci, hi |-> s.upper_ci],
                      cells |-> None])
       ELSE Returned([name |-> name, yi |-> Num(RInt(s.effect)),
                      sei |-> Num(RDiv(RInt(s.upper_ci - s.lower_ci), TwoZ)),
                      cells |-> None])
  ELSE IF Has(s, "events_1") /\ Has(s, "n_1") /\ Has(s, "events_2") /\ Has(s, "n_2")
  THEN TableEntry(name, Cells(s.events_1, s.n_1, s.events_2, s.n_2), measure)
  ELSE [exc |-> None, out |-> None]

\* str(s.get("name", f"Study {len(result)+1}"))
StudyName(s, result) == IF Has(s, "name") THEN s.name ELSE <<"Study", Len(result) + 1>>

\* result after a pass whose outcome is r
Extend(result, r) ==
  IF ~IsNone(r.exc) THEN Raised(Val(r.exc))
  ELSE IF IsNone(r.out) THEN Returned(result)
  ELSE Returned(Append(result, Val(r.out)))

\* _prepare_data(studies, measure): the entries of the recognised studies in
\* order, or the ValueError of the first study that raises.  acc is result
\* before pass i, or the exception that ended the loop.
RECURSIVE PrepareLoop(_, _, _, _)
PrepareLoop(studies, measure, i, acc) ==
  IF i > Len(studies) \/ ~IsNone(acc.exc) THEN acc
  ELSE PrepareLoop(studies, measure, i + 1,
                   Extend(Val(acc.out),
                          PrepareStudy(studies[i], measure,
                                       StudyName(studies[i], Val(acc.out)))))

PrepareData(studies, measure) == PrepareLoop(studies, measure, 1, Returned(<<>>))

\* np.sum over a sequence of rationals
RECURSIVE RSum(_)
RSum(q) == IF q = <<>> THEN R0 ELSE RAdd(Head(q), RSum(Tail(q)))

\* run_meta_analysis requires two studies: len(data) < 2 raises
TooFewStudies(data) == Len(data) < 2

\* df_q = len(yi) - 1
DfQ(k) == k - 1

\* I2 = max(0, (Q - df_q) / Q * 100) if Q > df_q else 0
I2Unclamped(Q, df_q) ==
  IF RLt(R0, Q) THEN RMul(RDiv(RSub(Q, RInt(df_q)), Q), RInt(100)) ELSE R0
I2Of(Q, df_q) ==
  IF RLt(RInt(df_q), Q)
  THEN RMax(R0, RMul(RDiv(RSub(Q, RInt(df_q)), Q), RInt(100)))
  ELSE R0

\* tau2 = max(0, (Q - df_q) / C) if C > 0 else 0
Tau2Of(Q, df_q, C) ==
  IF RLt(R0, C) THEN RMax(R0, RDiv(RSub(Q, RInt(df_q)), C)) ELSE R0

\* wi_fe = 1.0 / sei ** 2
WiFe(sei) == [i \in DOMAIN sei |-> RInv(RMul(sei[i], sei[i]))]

\* wi_re = 1.0 / (sei ** 2 + tau2)
WiRe(sei, tau2) == [i \in DOMAIN sei |-> RInv(RAdd(RMul(sei[i], sei[i]), tau2))]

\* np.sum(w * yi) / np.sum(w)
WeightedMean(w, yi) == RDiv(RSum([i \in DOMAIN w |-> RMul(w[i], yi[i])]), RSum(w))

\* Q = np.sum(wi_fe * (yi - fe_est) ** 2)
CochranQ(w, yi, est) ==
  RSum([i \in DOMAIN w |-> RMul(w[i], RMul(RSub(yi[i], est), RSub(yi[i], est)))])

\* C = np.sum(wi_fe) - np.sum(wi_fe ** 2) / np.sum(wi_fe)
CTerm(w) == RSub(RSum(w), RDiv(RSum([i \in DOMAIN w |-> RMul(w[i], w[i])]), RSum(w)))

\* the heterogeneity block, with the local C beside it
Heterogeneity(Q, df_q, C) ==
  [Q |-> Q, df |-> df_q, I2 |-> I2Of(Q, df_q), tau2 |-> Tau2Of(Q, df_q, C), C |-> C]

\* weights_pct = weights / weights.sum() * 100
WeightsPct(w) == [i \in DOMAIN w |-> RMul(RDiv(w[i], RSum(w)), RInt(100))]

\* an estimate with its standard error sqrt(1.0 / np.sum(w))
Estimate(w, yi) == [estimate |-> WeightedMean(w, yi), se |-> SqrtOf(RInv(RSum(w)))]

\* weights = wi_re if model == "random" else wi_fe
SelectWeightsAlwaysFixed(model, wi_fe, wi_re) == wi_fe
SelectWeights(model, wi_fe, wi_re) == IF model = "random" THEN wi_re ELSE wi_fe

\* lines 48-139: the random-effects estimate, the weights of the chosen model
\* and the returned dict
PoolResult(data, yi, sei, wi_fe, wi_re, het, measure, model) ==
  [measure |-> measure,
   model |-> model,
   n_studies |-> Len(data),
   heterogeneity |-> het,
   fixed_effects |-> Estimate(wi_fe, yi),
   random_effects |-> Estimate(wi_re, yi),
   pooled |-> IF model = "random" THEN Estimate(wi_re, yi) ELSE Estimate(wi_fe, yi),
   forest_studies |->
     [i \in DOMAIN data |->
        [name |-> data[i].name, yi |-> yi[i], sei |-> sei[i],
         weight |-> WeightsPct(SelectWeights(model, wi_fe, wi_re))[i]]],
   on_log |-> measure \in {"OR", "RR"}]

\* the heterogeneity of lines 40-46 for yi, sei and the fixed-effects weights
HeterogeneityOf(yi, wi_fe) ==
  Heterogeneity(CochranQ(wi_fe, yi, WeightedMean(wi_fe, yi)), DfQ(Len(yi)), CTerm(wi_fe))

PoolWith(data, yi, sei, wi_fe, het, measure, model) ==
  PoolResult(data, yi, sei, wi_fe, WiRe(sei, het.tau2), het, measure, model)

PoolOf(data, yi, sei, measure, model) ==
  PoolWith(data, yi, sei, WiFe(sei), HeterogeneityOf(yi, WiFe(sei)), measure, model)

\* the pooling of run_meta_analysis (lines 29-139) for rational yi and sei.
\* A study with sei = 0 makes np.sum(wi_fe) infinite and fe_se = 0.0, and
\* fe_z = fe_est / fe_se on Python floats raises ZeroDivisionError.
Pool(data, measure, model) ==
  IF \E i \in DOMAIN data : data[i].sei.v = R0 THEN Raised("ZeroDivisionError")
  ELSE Returned(PoolOf(data, [i \in DOMAIN data |-> data[i].yi.v],
                       [i \in DOMAIN data |-> data[i].sei.v], measure, model))

\* lines 26-139 of run_meta_analysis, data being the outcome of _prepare_data
PoolPrepared(data, measure, model) ==
  IF ~IsNone(data.exc) THEN Raised(Val(data.exc))
  ELSE IF TooFewStudies(Val(data.out)) THEN Raised("ValueError")
  ELSE Pool(Val(data.out), measure, model)

\* run_meta_analysis(studies, measure, model)
RunMetaAnalysis(studies, measure, model) ==
  PoolPrepared(PrepareData(studies, measure), measure, model)

\* the status the handler gives an outcome of the core
MetaStatus(exc) ==
  IF IsNone(exc) THEN 200 ELSE IF Val(exc) = "ValueError" THEN 400 ELSE 500

MetaResponse(r) == Response(MetaStatus(r.exc), TRUE, r)

\* analyze(req): 400 below two studies and for a ValueError of the core, 500
\* for any other exception
MetaHandler(studies, measure, model) ==
  IF Len(studies) < 2 THEN Response(400, FALSE, NotCalled)
  ELSE MetaResponse(RunMetaAnalysis(studies, measure, model))

----------------------------------------------------------------------------
(* src/medstat/analysis/clinical.py, src/medstat/routers/clinical.py *)

OptionOf(S) == {None} \cup {Some(v) : v \in S}

\* the modes of run_sample_size
SampleSizeModes == {"ttest_2samp", "proportion_2samp"}

\* the guard of lines 205-206: with no effect_size, mean1, mean2 and a
\* nonzero sd are required
TtestInputsMissing(mean1, mean2, sd) ==
  IsNone(mean1) \/ IsNone(mean2) \/ IsNone(sd) \/ Val(sd) = 0

\* lines 208-209 for an effect size es: the division by effect_size ** 2 and
\* 1.0 / ratio are divisions of Python floats
TtestSizes(test, es, ratio) ==
  IF ratio = 0 \/ es = R0 THEN Raised("ZeroDivisionError")
  ELSE Returned([test |-> test, effect_size |-> Some(es), ratio |-> ratio,
                 n1 |-> [kind |-> "ceil", mode |-> test, effect_size |-> es, ratio |-> ratio],
                 n2 |-> [kind |-> "ceil_n1_times", ratio |-> ratio]])

\* lines 212-221 for proportions p1, p2.  1.0 / ratio is a division of Python
\* floats; num / denom is a numpy division, so p1 = p2 gives inf, or nan when
\* num is 0 too, and int() of them raises OverflowError and ValueError.
ProportionSizes(test, p1, p2, ratio) ==
  IF ratio = 0 THEN Raised("ZeroDivisionError")
  ELSE IF p1 = p2
       THEN IF p1 = R0 \/ p1 = R1 THEN Raised("ValueError") ELSE Raised("OverflowError")
       ELSE Returned([test |-> test,
                      effect_size |-> Some([kind |-> "h", p1 |-> p1, p2 |-> p2, ratio |-> ratio]),
                      ratio |-> ratio,
                      n1 |-> [kind |-> "ceil", mode |-> test, p1 |-> p1, p2 |-> p2, ratio |-> ratio],
                      n2 |-> [kind |-> "ceil_n1_times", ratio |-> ratio]])

\* run_sample_size(test, alpha, power, effect_size, mean1, mean2, sd, p1, p2, ratio)
RunSampleSize(test, effect_size, mean1, mean2, sd, p1, p2, ratio) ==
  IF test = "ttest_2samp"
  THEN IF IsNone(effect_size)
       THEN IF TtestInputsMissing(mean1, mean2, sd) THEN Raised("ValueError")
            ELSE TtestSizes(test, Rat(Abs(Val(mean2) - Val(mean1)), Val(sd)), ratio)
       ELSE TtestSizes(test, RInt(Val(effect_size)), ratio)
  ELSE IF test = "proportion_2samp"
  THEN IF IsNone(p1) \/ IsNone(p2) THEN Raised("ValueError")
       ELSE ProportionSizes(test, Val(p1), Val(p2), ratio)
  ELSE Raised("ValueError")

\* the status a clinical handler gives an outcome of the core when it maps
\* ValueError to 400
StatusOf(exc) ==
  IF IsNone(exc) THEN 200 ELSE IF Val(exc) = "ValueError" THEN 400 ELSE 500

CoreResponse(r) == Response(StatusOf(r.exc), TRUE, r)

\* sample_size(req): no check of its own; ValueError is a 400, any other
\* exception a 500
SampleSizeHandler(test, effect_size, mean1, mean2, sd, p1, p2, ratio) ==
  CoreResponse(RunSampleSize(test, effect_size, mean1, mean2, sd, p1, p2, ratio))

----------------------------------------------------------------------------
(* src/medstat/analysis/biomarker.py, src/medstat/routers/biomarker.py *)

\* A threshold: a float, which may be an infinity (inf is 1, -1 or 0).
Fin(r) == [inf |-> 0, v |-> r]
PosInf == [inf |-> 1, v |-> R0]
NegT(t) == [inf |-> 0 - t.inf, v |-> RNeg(t.v)]

\* marker >= threshold and marker <= threshold for a marker value m
MarkerGe(m, t) == IF t.inf # 0 THEN t.inf < 0 ELSE RLe(t.v, RInt(m))
MarkerLe(m, t) == IF t.inf # 0 THEN t.inf > 0 ELSE RLe(RInt(m), t.v)

\* pred of lines 105-106
Pred(marker, threshold, direction) ==
  [i \in DOMAIN marker |->
     IF direction = "high"
     THEN (IF MarkerGe(marker[i], threshold) THEN 1 ELSE 0)
     ELSE (IF MarkerLe(marker[i], threshold) THEN 1 ELSE 0)]

\* np.sum((pred == p) & (y == v))
CountWhere(pred, y, p, v) == Cardinality({i \in DOMAIN y : pred[i] = p /\ y[i] = v})

\* x / total if total > 0 else 0.0
GuardedRatio(x, total) == IF total > 0 THEN Rat(x, total) ELSE R0

\* plr = sens / (1 - spec) if spec < 1 else None
PositiveLrGuardedAtZero(sens, spec) ==
  IF RLt(R0, spec) THEN Some(RDiv(sens, RSub(R1, spec))) ELSE None
PositiveLr(sens, spec) ==
  IF RLt(spec, R1) THEN Some(RDiv(sens, RSub(R1, spec))) ELSE None

\* nlr = (1 - sens) / spec if spec > 0 else None
NegativeLr(sens, spec) ==
  IF RLt(R0, spec) THEN Some(RDiv(RSub(R1, sens), spec)) ELSE None

\* lines 113-128: the panel of the four counts
Panel(threshold, tp, fp, tn, fn, n) ==
  [threshold |-> threshold,
   tp |-> tp, fp |-> fp, tn |-> tn, fn |-> fn,
   sensitivity |-> GuardedRatio(tp, tp + fn),
   specificity |-> GuardedRatio(tn, tn + fp),
   ppv |-> GuardedRatio(tp, tp + fp),
   npv |-> GuardedRatio(tn, tn + fn),
   accuracy |-> GuardedRatio(tp + tn, n),
   positive_lr |-> PositiveLr(GuardedRatio(tp, tp + fn), GuardedRatio(tn, tn + fp)),
   negative_lr |-> NegativeLr(GuardedRatio(tp, tp + fn), GuardedRatio(tn, tn + fp))]

PanelOfPred(threshold, pred, y) ==
  Panel(threshold, CountWhere(pred, y, 1, 1), CountWhere(pred, y, 1, 0),
        CountWhere(pred, y, 0, 0), CountWhere(pred, y, 0, 1), Len(y))

\* _threshold_performance(y, marker, threshold, direction)
ThresholdPerformance(y, marker, threshold, direction) ==
  PanelOfPred(threshold, Pred(marker, threshold, direction), y)

\* m_eval = -m if positive_direction == "low" else m
MEval(m, direction) == [i \in DOMAIN m |-> IF direction = "low" THEN 0 - m[i] ELSE m[i]]

Reverse(s) == [i \in 1..Len(s) |-> s[Len(s) + 1 - i]]

\* sklearn's _binary_clf_curve: the distinct scores in descending order
DistinctDesc(scores) == Reverse(SortedSeq({scores[i] : i \in DOMAIN scores}))

\* the observations of label v scored at least t (tps for v = 1, fps for v = 0)
CumCount(y, scores, v, t) == Cardinality({i \in DOMAIN y : y[i] = v /\ scores[i] >= t})

\* roc_curve(drop_intermediate=True) keeps the first and the last point and
\* every point where the second difference of fps or tps is not zero
Kept(tps, fps) ==
  IF Len(fps) <= 2 THEN DOMAIN fps
  ELSE {i \in DOMAIN fps :
          \/ i = 1 \/ i = Len(fps)
          \/ fps[i + 1] - 2 * fps[i] + fps[i - 1] # 0
          \/ tps[i + 1] - 2 * tps[i] + tps[i - 1] # 0}

\* roc_curve puts a point (0, 0) in front, under a threshold above every
\* score: np.inf in scikit-learn from 1.3 on, thresholds[0] + 1 before
TopThreshold(first, sklearn) == IF sklearn = "inf" THEN PosInf ELSE Fin(RInt(first + 1))

\* fpr, tpr and thresholds of the points th (distinct scores, descending)
CurveOf(y, scores, th, keep, sklearn) ==
  [thresholds |-> <<TopThreshold(th[1], sklearn)>>
                    \o [i \in 1..Len(keep) |-> Fin(RInt(th[keep[i]]))],
   tpr |-> <<R0>> \o [i \in 1..Len(keep) |->
                        Rat(CumCount(y, scores, 1, th[keep[i]]),
                            CumCount(y, scores, 1, th[Len(th)]))],
   fpr |-> <<R0>> \o [i \in 1..Len(keep) |->
                        Rat(CumCount(y, scores, 0, th[keep[i]]),
                            CumCount(y, scores, 0, th[Len(th)]))]]

CurveOfScores(y, scores, th, sklearn) ==
  CurveOf(y, scores, th,
          SortedSeq(Kept([i \in DOMAIN th |-> CumCount(y, scores, 1, th[i])],
                         [i \in DOMAIN th |-> CumCount(y, scores, 0, th[i])])),
          sklearn)

\* roc_curve(y, m_eval), for an outcome with both classes present
RocCurve(y, scores, sklearn) == CurveOfScores(y, scores, DistinctDesc(scores), sklearn)

\* np.argmax: the first index of the largest value
ArgMaxLast(j) ==
  CHOOSE i \in DOMAIN j : (\A k \in DOMAIN j : RLe(j[k], j[i])) /\ (\A k \in DOMAIN j : k > i => RLt(j[k], j[i]))
ArgMax(j) ==
  CHOOSE i \in DOMAIN j :
    /\ \A k \in DOMAIN j : RLe(j[k], j[i])
    /\ \A k \in DOMAIN j : k < i => RLt(j[k], j[i])

\* j_scores = tpr - fpr
JScores(curve) == [i \in DOMAIN curve.tpr |-> RSub(curve.tpr[i], curve.fpr[i])]

\* sklearn's auc: the trapezoidal rule
TrapezoidAuc(fpr, tpr) ==
  RSum([i \in 1..(Len(fpr) - 1) |->
          RMul(RSub(fpr[i + 1], fpr[i]),
               RMul([n |-> 1, d |-> 2], RAdd(tpr[i + 1], tpr[i])))])

\* _hanley_mcneil_se: the variance under the square root
HanleyMcNeilVar(n1, n0, auc) ==
  IF n1 = 0 \/ n0 = 0 THEN R0
  ELSE RMax(R0,
         RDiv(RAdd(RMul(auc, RSub(R1, auc)),
                   RAdd(RMul(RInt(n1 - 1),
                             RSub(RDiv(auc, RSub(RInt(2), auc)), RMul(auc, auc))),
                        RMul(RInt(n0 - 1),
                             RSub(RDiv(RMul(RInt(2), RMul(auc, auc)), RAdd(R1, auc)),
                                  RMul(auc, auc))))),
              RInt(n1 * n0)))

\* np.percentile(values, q): linear interpolation in the sorted values a at
\* the position q / 100 * (n - 1), given as the rational h
Interpolate(a, h) ==
  IF (h.n \div h.d) + 1 >= Len(a) THEN RInt(a[Len(a)])
  ELSE RAdd(RInt(a[(h.n \div h.d) + 1]),
            RMul(RSub(h, RInt(h.n \div h.d)),
                 RInt(a[(h.n \div h.d) + 2] - a[(h.n \div h.d) + 1])))

\* the values in ascending order, repetitions kept (np.sort)
RECURSIVE SortAsc(_)
SortAsc(s) ==
  IF s = <<>> THEN <<>>
  ELSE LET i == CHOOSE i \in DOMAIN s : \A k \in DOMAIN s : s[i] <= s[k]
       IN <<s[i]>> \o SortAsc([k \in 1..(Len(s) - 1) |-> IF k < i THEN s[k] ELSE s[k + 1]])

\* np.linspace(10, 90, 10)[i] / 100, i from 0
DecileFraction(i) == Rat(90 + 80 * i, 900)

\* _build_sens_spec_table, sorted the sorted m_eval
SensSpecTable(y, marker, sorted, direction) ==
  [i \in 1..10 |->
     ThresholdPerformance(
       y, marker,
       IF direction = "low"
       THEN NegT(Fin(Interpolate(sorted, RMul(DecileFraction(i - 1), RInt(Len(sorted) - 1)))))
       ELSE Fin(Interpolate(sorted, RMul(DecileFraction(i - 1), RInt(Len(sorted) - 1)))),
       direction)]

\* the panel taken at opt_thresh_eval, the threshold on the scale of m_eval
OptimalThresholdOnEvalScale(y, m, direction, t_eval, j) ==
  [value |-> IF direction = "low" THEN NegT(t_eval) ELSE t_eval,
   youden_index |-> j]
    @@ ThresholdPerformance(y, m, t_eval, direction)

\* lines 38-43: the threshold at opt_idx on the scale of the marker, with its
\* Youden index and its panel
OptimalThreshold(y, m, direction, t_eval, j) ==
  [value |-> IF direction = "low" THEN NegT(t_eval) ELSE t_eval,
   youden_index |-> j]
    @@ ThresholdPerformance(y, m, IF direction = "low" THEN NegT(t_eval) ELSE t_eval,
                            direction)

\* the returned dict, given the curve, its area and opt_idx
RocResult(y, m, threshold, direction, curve, roc_auc, opt_idx) ==
  [n |-> Len(y),
   n_positive |-> Cardinality({i \in DOMAIN y : y[i] = 1}),
   n_negative |-> Cardinality({i \in DOMAIN y : y[i] = 0}),
   auc |-> roc_auc,
   auc_se |-> SqrtOf(HanleyMcNeilVar(Cardinality({i \in DOMAIN y : y[i] = 1}),
                                     Cardinality({i \in DOMAIN y : y[i] = 0}), roc_auc)),
   roc_curve |-> [fpr |-> curve.fpr, tpr |-> curve.tpr],
   optimal_threshold |->
     OptimalThreshold(y, m, direction, curve.thresholds[opt_idx], JScores(curve)[opt_idx]),
   selected_threshold |->
     IF IsNone(threshold) THEN None
     ELSE Some(ThresholdPerformance(y, m, Fin(RInt(Val(threshold))), direction)),
   sens_spec_table |-> SensSpecTable(y, m, SortAsc(MEval(m, direction)), direction),
   locals |-> [thresholds_sk |-> curve.thresholds, opt_idx |-> opt_idx]]

RocOfCurve(y, m, threshold, direction, curve) ==
  RocResult(y, m, threshold, direction, curve, TrapezoidAuc(curve.fpr, curve.tpr),
            ArgMax(JScores(curve)))

\* run_roc_analysis(marker, outcome, marker_name, threshold, positive_direction)
\* for an outcome of zeros and ones with both present; sklearn is the
\* threshold roc_curve gives its first point
RunRocAnalysis(m, y, threshold, direction, sklearn) ==
  RocOfCurve(y, m, threshold, direction, RocCurve(y, MEval(m, direction), sklearn))

----------------------------------------------------------------------------
(* src/medstat/analysis/clinical.py: run_anova, _tukey_hsd, run_chi_square,
   run_ttest; src/medstat/routers/clinical.py *)

\* a float nan: every comparison with it is false
NaN == [n |-> 0, d |-> 0]
IsNaN(x) == x.d = 0

\* the 0.05 of lines 99, 118 and 142
Alpha == [n |-> 1, d |-> 20]

RECURSIVE SumSeq(_)
SumSeq(a) == IF a = <<>> THEN 0 ELSE Head(a) + SumSeq(Tail(a))

\* np.mean(a), a not empty
Mean(a) == Rat(SumSeq(a), Len(a))

\* np.sum((a - np.mean(a)) ** 2), the mean passed in
SumSqAbout(a, mean) ==
  RSum([i \in DOMAIN a |-> RMul(RSub(RInt(a[i]), mean), RSub(RInt(a[i]), mean))])
SumSq(a) == SumSqAbout(a, Mean(a))

RECURSIVE Concat(_)
Concat(arrays) == IF arrays = <<>> THEN <<>> ELSE Head(arrays) \o Concat(Tail(arrays))

\* ss_between and ss_within of lines 77-78, grand_mean passed in
SsBetweenAbout(arrays, grand_mean) ==
  RSum([i \in DOMAIN arrays |->
          RMul(RInt(Len(arrays[i])),
               RMul(RSub(Mean(arrays[i]), grand_mean), RSub(Mean(arrays[i]), grand_mean)))])
SsBetween(arrays) == SsBetweenAbout(arrays, Mean(Concat(arrays)))
SsWithin(arrays) == RSum([i \in DOMAIN arrays |-> SumSq(arrays[i])])

\* ms_within = ss_within / df_within if df_within > 0 else 0.0
MsWithin(arrays) ==
  IF SumSeq([i \in DOMAIN arrays |-> Len(arrays[i])]) - Len(arrays) > 0
  THEN RDiv(SsWithin(arrays),
            RInt(SumSeq([i \in DOMAIN arrays |-> Len(arrays[i])]) - Len(arrays)))
  ELSE R0

\* group_names when none are given
GroupName(i) == <<"Group", i>>

\* itertools.combinations(enumerate(arrays), 2), in its order
RECURSIVE PairsFrom(_, _, _)
PairsFrom(i, j, k) ==
  IF i >= k THEN <<>>
  ELSE IF j > k THEN PairsFrom(i + 1, i + 2, k)
  ELSE <<(<<i, j>>)>> \o PairsFrom(i, j + 1, k)
Combinations(k) == PairsFrom(1, 2, k)

\* What scipy returns is not computed here; a call is given an answer
\* sc of the library:
\*   sc.p_value  the p-value of stats.f_oneway
\*   sc.range    whether studentized_range can be imported and its cdf
\*               evaluated: "ok", "fails" (for every pair), "fails_first"
\*   sc.p_pair   the p-value of a pair of groups whose means differ
\* A pair with q_stat = 0 has 1 - cdf(0) = 1; ttest_ind of two groups with
\* equal means gives p = 1, or nan when neither group varies.
Constant(a) == \A i, j \in DOMAIN a : a[i] = a[j]
RangeFails(sc, n) == sc.range = "fails" \/ (sc.range = "fails_first" /\ n = 1)
RangeP(q_zero, sc) == IF q_zero THEN R1 ELSE sc.p_pair
TtestP(a, b, sc) ==
  IF Mean(a) = Mean(b) THEN (IF Constant(a) /\ Constant(b) THEN NaN ELSE R1)
  ELSE sc.p_pair

\* min(1.0, x) of Python: x unless it is not below 1.0 (so 1.0 for nan)
PyMin1(x) == IF RLt(x, R1) THEN x ELSE R1

\* lines 133-135: pairwise t-test with Bonferroni correction
Bonferroni(p_raw, k) ==
  IF IsNaN(p_raw) THEN R1 ELSE PyMin1(RMul(p_raw, Rat(k * (k - 1), 2)))

\* the dict appended for a pair (lines 137-143)
TukeyEntry(i, j, diff, p) ==
  [group1 |-> GroupName(i), group2 |-> GroupName(j), mean_diff |-> diff,
   p_adjusted |-> p, significant |-> RLt(p, Alpha)]

\* one pass of the loop of _tukey_hsd, for the n-th pair (i, j)
TukeyPass(arrays, i, j, n, ms_within, sc) ==
  TukeyEntry(i, j, RSub(Mean(arrays[i]), Mean(arrays[j])),
             IF RangeFails(sc, n)
             THEN Bonferroni(TtestP(arrays[i], arrays[j], sc), Len(arrays))
             ELSE RangeP(ms_within = R0 \/ Mean(arrays[i]) = Mean(arrays[j]), sc))

\* _tukey_hsd(arrays, names, ms_within, df_within)
TukeyOver(arrays, pairs, ms_within, sc) ==
  [n \in DOMAIN pairs |-> TukeyPass(arrays, pairs[n][1], pairs[n][2], n, ms_within, sc)]
TukeyHsd(arrays, ms_within, sc) ==
  TukeyOver(arrays, Combinations(Len(arrays)), ms_within, sc)

\* the guard of line 99
PosthocDueAnySignificant(p_value, k) == RLt(p_value, Alpha)
PosthocDue(p_value, k) == RLt(p_value, Alpha) /\ k > 2

\* group_stats (lines 85-96); the confidence interval is scipy's
GroupStats(arrays) ==
  [i \in DOMAIN arrays |->
     [name |-> GroupName(i), n |-> Len(arrays[i]), mean |-> Mean(arrays[i]),
      sd |-> IF Len(arrays[i]) > 1
             THEN SqrtOf(RDiv(SumSq(arrays[i]), RInt(Len(arrays[i]) - 1)))
             ELSE SqrtOf(NaN)]]

AnovaTable(arrays, ss_between, ss_within, sc) ==
  [ss_between |-> ss_between,
   ss_within |-> ss_within,
   df_between |-> Len(arrays) - 1,
   df_within |-> SumSeq([i \in DOMAIN arrays |-> Len(arrays[i])]) - Len(arrays),
   ms_between |-> RDiv(ss_between, RInt(Len(arrays) - 1)),
   ms_within |-> MsWithin(arrays),
   p_value |-> sc.p_value]

EtaSquared(ss_between, ss_within) ==
  IF RLt(R0, RAdd(ss_between, ss_within))
  THEN RDiv(ss_between, RAdd(ss_between, ss_within))
  ELSE R0

\* run_anova(groups, None) for two or more groups, none of them empty
RunAnova(groups, sc) ==
  Returned([type |-> "anova",
            k |-> Len(groups),
            n_total |-> SumSeq([i \in DOMAIN groups |-> Len(groups[i])]),
            group_stats |-> GroupStats(groups),
            anova_table |-> AnovaTable(groups, SsBetween(groups), SsWithin(groups), sc),
            eta_squared |-> EtaSquared(SsBetween(groups), SsWithin(groups)),
            significant |-> RLt(sc.p_value, Alpha),
            posthoc_tukey |-> IF PosthocDue(sc.p_value, Len(groups))
                              THEN TukeyHsd(groups, MsWithin(groups), sc)
                              ELSE <<>>])

\* except Exception: any exception of the core is a 500
ServerErrorResponse(r) == Response(IF IsNone(r.exc) THEN 200 ELSE 500, TRUE, r)

\* anova(req): 400 for fewer than two groups or a group of fewer than two
\* observations, 500 for any exception of the core
AnovaHandler(groups, sc) ==
  IF Len(groups) < 2 THEN Response(400, FALSE, NotCalled)
  ELSE IF \E i \in DOMAIN groups : Len(groups[i]) < 2 THEN Response(400, FALSE, NotCalled)
  ELSE ServerErrorResponse(RunAnova(groups, sc))

\* obs.shape == (2, 2), for a rectangular table given as its rows
IsTwoByTwoByRows(obs) == Len(obs) = 2
IsTwoByTwo(obs) == Len(obs) = 2 /\ Len(obs[1]) = 2

RowSum(obs, i) == SumSeq(obs[i])
ColSum(obs, j) == SumSeq([i \in DOMAIN obs |-> obs[i][j]])
Total(obs) == SumSeq([i \in DOMAIN obs |-> RowSum(obs, i)])

\* scipy's expected_freq: row sum * column sum / total (total > 0)
Expected(obs, i, j) == Rat(RowSum(obs, i) * ColSum(obs, j), Total(obs))

\* chi2_contingency raises ValueError when an expected frequency is zero
ZeroExpected(obs) ==
  \/ Total(obs) = 0
  \/ \E i \in DOMAIN obs : RowSum(obs, i) = 0
  \/ \E j \in DOMAIN obs[1] : ColSum(obs, j) = 0

\* scipy moves each observed count towards its expectation by
\* min(0.5, |expected - observed|) when correction is set and dof == 1
Deviation(o, ex, corrected) ==
  IF corrected
  THEN RSub(RAbs(RSub(ex, RInt(o))), RMin([n |-> 1, d |-> 2], RAbs(RSub(ex, RInt(o)))))
  ELSE RAbs(RSub(ex, RInt(o)))

ChiTerm(o, ex, corrected) ==
  RDiv(RMul(Deviation(o, ex, corrected), Deviation(o, ex, corrected)), ex)

Dof(obs) == (Len(obs) - 1) * (Len(obs[1]) - 1)

\* the statistic of chi2_contingency(obs, correction=correction)
Chi2Statistic(obs, correction) ==
  RSum([i \in DOMAIN obs |->
          RSum([j \in DOMAIN obs[1] |->
                  ChiTerm(obs[i][j], Expected(obs, i, j), correction /\ Dof(obs) = 1)])])

\* fisher_exact's odds ratio a*d / (b*c), inf when b*c = 0 (a*d is not 0
\* then, no row or column of the table being empty)
OddsRatio(obs) ==
  IF obs[1][2] * obs[2][1] = 0 THEN PosInf
  ELSE Fin(Rat(obs[1][1] * obs[2][2], obs[1][2] * obs[2][1]))

\* fisher_result of lines 160-163; the p-value is scipy's
FisherResult(obs, is_2x2) ==
  IF is_2x2
  THEN Some([odds_ratio |-> OddsRatio(obs), p_value |-> [k |-> "fisher_p", v |-> obs]])
  ELSE None

\* cramers_v of line 166 (min(obs.shape) > 1 and n > 0)
CramersV(obs, chi2) ==
  IF Min({Len(obs), Len(obs[1])}) > 1 /\ Total(obs) > 0
  THEN SqrtOf(RDiv(chi2, RInt(Total(obs) * (Min({Len(obs), Len(obs[1])}) - 1))))
  ELSE SqrtOf(R0)

\* the dict of lines 173-185, chi2 passed in; p_value is scipy's survival
\* function of chi2, and expected is rounded to two decimals
ChiSquareResult(obs, chi2, correction) ==
  [type |-> "chi_square",
   observed |-> obs,
   expected |-> [i \in DOMAIN obs |->
                   [j \in DOMAIN obs[1] |-> [k |-> "round2", v |-> Expected(obs, i, j)]]],
   chi2 |-> chi2,
   df |-> Dof(obs),
   p_value |-> [k |-> "chi2_sf", v |-> chi2, df |-> Dof(obs)],
   cramers_v |-> CramersV(obs, chi2),
   fisher_exact |-> FisherResult(obs, IsTwoByTwo(obs)),
   locals |-> [correction |-> correction]]

\* run_chi_square(observed, None, None, yates_correction) for a rectangular
\* table with a row and a column at least
RunChiSquare(obs, yates_correction) ==
  IF ZeroExpected(obs) THEN Raised("ValueError")
  ELSE Returned(ChiSquareResult(obs,
                                Chi2Statistic(obs, yates_correction /\ IsTwoByTwo(obs)),
                                yates_correction /\ IsTwoByTwo(obs)))

\* chi_square(req): 400 for a table smaller than 2x2, 500 for any exception
\* of the core
ChiSquareHandler(obs, yates_correction) ==
  IF Len(obs) < 2 \/ \E i \in DOMAIN obs : Len(obs[i]) < 2
  THEN Response(400, FALSE, NotCalled)
  ELSE ServerErrorResponse(RunChiSquare(obs, yates_correction))

\* np.var(a, ddof=1): nan for a single observation
Var1(a) == IF Len(a) > 1 THEN RDiv(SumSq(a), RInt(Len(a) - 1)) ELSE NaN

\* a - b of two arrays of one length
Diffs(a, b) == [i \in DOMAIN a |-> a[i] - b[i]]

\* x / sqrt(v), kept as the pair
OverSqrt(x, v) == [k |-> "over_sqrt", num |-> x, v |-> v]

\* ((n1-1)*s1 + (n2-1)*s2) / (n1+n2-2), nan when a variance is
PooledVar(a, b) ==
  IF Len(a) < 2 \/ Len(b) < 2 THEN NaN
  ELSE RDiv(RAdd(SumSq(a), SumSq(b)), RInt(Len(a) + Len(b) - 2))

\* the dict of lines 43-60; t_stat, df, p_value and ci_95 are scipy's
TtestResult(a, b, paired, diff, cohens_d, p_value) ==
  [type |-> "ttest", paired |-> paired, n1 |-> Len(a), n2 |-> Len(b),
   mean1 |-> Mean(a), mean2 |-> Mean(b),
   sd1 |-> SqrtOf(Var1(a)), sd2 |-> SqrtOf(Var1(b)),
   mean_diff |-> diff, p_value |-> p_value, cohens_d |-> cohens_d,
   significant |-> RLt(p_value, Alpha)]

\* lines 20-27: the paired test; diff / float(np.std(diffs, ddof=1)) divides
\* Python floats and raises ZeroDivisionError for differences that do not vary
PairedTtest(a, b, diffs, p_value) ==
  IF Var1(diffs) = R0 THEN Raised("ZeroDivisionError")
  ELSE Returned(TtestResult(a, b, TRUE, Mean(diffs), OverSqrt(Mean(diffs), Var1(diffs)),
                            p_value))

\* lines 29-41: the two-sample test; cohens_d is 0.0 unless pooled_sd > 0
TwoSampleTtest(a, b, p_value) ==
  Returned(TtestResult(a, b, FALSE, RSub(Mean(a), Mean(b)),
                       IF RLt(R0, PooledVar(a, b))
                       THEN OverSqrt(RSub(Mean(a), Mean(b)), PooledVar(a, b))
                       ELSE Num(R0),
                       p_value))

\* run_ttest(group1, group2, paired, equal_var) for groups that are not
\* empty; p_value is the p-value scipy gives
RunTtest(a, b, paired, p_value) ==
  IF paired
  THEN IF Len(a) # Len(b) THEN Raised("ValueError")
       ELSE PairedTtest(a, b, Diffs(a, b), p_value)
  ELSE TwoSampleTtest(a, b, p_value)

\* ttest(req): 400 for a group of fewer than two observations and for a
\* ValueError of the core, 500 for any other exception
TtestHandler(a, b, paired, p_value) ==
  IF Len(a) < 2 \/ Len(b) < 2 THEN Response(400, FALSE, NotCalled)
  ELSE CoreResponse(RunTtest(a, b, paired, p_value))

\* roc(req): 400 for lists of different lengths, fewer than five
\* observations, an outcome value other than 0 and 1, or an outcome of one
\* class; 500 for any exception of the core
RocMinObs == 5
RocHandler(marker, outcome, threshold, direction, sklearn) ==
  IF Len(marker) # Len(outcome) THEN Response(400, FALSE, NotCalled)
  ELSE IF Len(marker) < RocMinObs THEN Response(400, FALSE, NotCalled)
  ELSE IF \E i \in DOMAIN outcome : outcome[i] \notin {0, 1}
       THEN Response(400, FALSE, NotCalled)
  ELSE IF SumSeq(outcome) = 0 \/ SumSeq(outcome) = Len(outcome)
       THEN Response(400, FALSE, NotCalled)
  ELSE Response(200, TRUE,
                Returned(RunRocAnalysis(marker, outcome, threshold, direction, sklearn)))

\* analyze(req) of the survival router: 400 for time and event of different
\* lengths, for a non-empty groups of another length than time, for a
\* negative time and for an event other than 0 and 1; 500 for any exception
\* of the core
SurvivalHandler(time, event, groups) ==
  IF Len(time) # Len(event) THEN Response(400, FALSE, NotCalled)
  ELSE IF ~IsNone(groups) /\ Val(groups) # <<>> /\ Len(Val(groups)) # Len(time)
       THEN Response(400, FALSE, NotCalled)
  ELSE IF \E i \in DOMAIN time : time[i] < 0 THEN Response(400, FALSE, NotCalled)
  ELSE IF \E i \in DOMAIN event : event[i] \notin {0, 1}
       THEN Response(400, FALSE, NotCalled)
  ELSE Response(200, TRUE, Returned(RunKaplanMeierResult(time, event, groups)))

----------------------------------------------------------------------------
(* src/medstat/analysis/epidemiology.py: run_incidence_rate;
   src/medstat/routers/epidemiology.py: incidence_rate *)

\* stats.chi2.ppf(q, df), kept as its arguments
Chi2Ppf(q, df) == [k |-> "chi2_ppf", q |-> q, df |-> df]

\* lo and hi of lines 164-165, before the division by 2 * person_time
PoissonLower(events) == IF events > 0 THEN Chi2Ppf("0.025", 2 * events) ELSE Num(R0)
PoissonUpper(events) == Chi2Ppf("0.975", 2 * (events + 1))

\* the result dict of lines 167-176
RateBlock(events, person_time) ==
  [type |-> "incidence_rate",
   events |-> events,
   person_time |-> person_time,
   incidence_rate |-> Rat(events, person_time),
   ci_95 |-> <<[k |-> "over", num |-> PoissonLower(events), den |-> 2 * person_time],
               [k |-> "over", num |-> PoissonUpper(events), den |-> 2 * person_time]>>]

\* lines 181-187, for irr not None: 1.0/events and 1.0/comparison_events
\* divide a Python float by an int and raise ZeroDivisionError at zero
RateRatio(events, person_time, c_events, c_time, ir, ir2) ==
  IF events = 0 \/ c_events = 0 THEN Raised("ZeroDivisionError")
  ELSE Returned([events |-> c_events,
                 person_time |-> c_time,
                 incidence_rate |-> ir2,
                 irr |-> Some(RDiv(ir, ir2)),
                 log_irr |-> LogOf(RDiv(ir, ir2)),
                 se_log_irr |-> SqrtOf(RAdd(Rat(1, events), Rat(1, c_events))),
                 z |-> OverSqrt(RSub(RInt(events), RMul(RInt(person_time), ir2)),
                                RMul(RMul(RInt(person_time), ir2),
                                     RAdd(R1, Rat(person_time, c_time))))])

\* lines 179-199: the comparison block, irr = ir / ir2 if ir2 > 0 else None
Comparison(events, person_time, c_events, c_time, ir2) ==
  IF RLt(R0, ir2)
  THEN RateRatio(events, person_time, c_events, c_time, Rat(events, person_time), ir2)
  ELSE Returned([events |-> c_events,
                 person_time |-> c_time,
                 incidence_rate |-> ir2,
                 irr |-> None])

\* result with result["comparison"] set to the block c
WithComparison(result, c) ==
  IF IsNone(c.exc) THEN Returned(result @@ [comparison |-> Val(c.out)])
  ELSE Raised(Val(c.exc))

\* run_incidence_rate(events, person_time, comparison_events,
\* comparison_person_time); float(x) / float(0) raises ZeroDivisionError
RunIncidenceRate(events, person_time, c_events, c_time) ==
  IF person_time = 0 THEN Raised("ZeroDivisionError")
  ELSE IF IsNone(c_events) \/ IsNone(c_time) THEN Returned(RateBlock(events, person_time))
  ELSE IF Val(c_time) = 0 THEN Raised("ZeroDivisionError")
  ELSE WithComparison(RateBlock(events, person_time),
                      Comparison(events, person_time, Val(c_events), Val(c_time),
                                 Rat(Val(c_events), Val(c_time))))

\* incidence_rate(req): 400 for events < 0 or person_time <= 0, 500 for any
\* exception of the core
IncidenceRateHandler(events, person_time, c_events, c_time) ==
  IF events < 0 \/ person_time <= 0 THEN Response(400, FALSE, NotCalled)
  ELSE ServerErrorResponse(RunIncidenceRate(events, person_time, c_events, c_time))

----------------------------------------------------------------------------
(* Two invocations at once: run_kaplan_meier (survival.py:9-44) and
   run_meta_analysis (meta.py:12-31) executed statement by statement, each
   with the local variables of its own call. *)

\* unique_groups of lines 18-23
UniqueGroups(groups) ==
  IF IsNone(groups) THEN <<None>>
  ELSE [k \in 1..Cardinality({Val(groups)[i] : i \in DOMAIN Val(groups)}) |->
          Some(SortedSeq({Val(groups)[i] : i \in DOMAIN Val(groups)})[k])]

\* the mask of lines 27-31
GroupMask(time, groups, grp) ==
  IF IsNone(grp) THEN DOMAIN time
  ELSE {i \in DOMAIN Val(groups) : Val(groups)[i] = Val(grp)}

\* the dict appended to curves by one pass of the loop (lines 33-38)
GroupCurve(time, event, mask, grp) ==
  [label |-> grp, n |-> Len(Masked(time, mask, 1)),
   km |-> KmEstimate(Masked(time, mask, 1), Masked(event, mask, 1))]

\* lines 40-44: logrank and the returned dict, curves passed in
KaplanMeierReturn(time, event, groups, unique_groups, curves) ==
  [curves |-> curves,
   logrank |-> IF LogrankApplies(unique_groups)
               THEN Some(LogrankTest(time, event, Val(groups),
                           <<Val(unique_groups[1]), Val(unique_groups[2])>>))
               ELSE None]

\* the frame of a call that has not executed a statement: k counts the
\* passes of the loop of run_kaplan_meier, curves and data are the local
\* variables of those names, out is the outcome once the call has ended
NewFrame == [at |-> "start", k |-> 1, curves |-> <<>>, data |-> None, out |-> None,
             overlapped |-> FALSE]

\* the frame that holds the local variables of invocation i: its own
LocalsInFirstFrame(i) == 1
LocalsOf(i) == i

\* a statement of invocation i is executed while the other one is under way
Overlaps(frames, i) == frames[3 - i].at \notin {"start", "done"}

\* one pass of the loop of run_kaplan_meier by invocation i, or, the groups
\* exhausted, lines 40-44
KaplanMeierStep(frames, r, i, unique_groups) ==
  IF frames[i].k <= Len(unique_groups)
  THEN [frames EXCEPT
          ![LocalsOf(i)].curves =
             Append(@, GroupCurve(r.time, r.event,
                                  GroupMask(r.time, r.groups, unique_groups[frames[i].k]),
                                  unique_groups[frames[i].k])),
          ![i].k = @ + 1,
          ![i].at = "loop",
          ![i].overlapped = @ \/ Overlaps(frames, i)]
  ELSE [frames EXCEPT
          ![i].out = Some(KaplanMeierReturn(r.time, r.event, r.groups, unique_groups,
                                            frames[LocalsOf(i)].curves)),
          ![i].at = "done",
          ![i].overlapped = @ \/ Overlaps(frames, i)]

\* run_meta_analysis by invocation i: data = _prepare_data(...) of line 24,
\* then lines 25-139 on data
MetaStep(frames, r, i) ==
  IF frames[i].at = "start"
  THEN [frames EXCEPT
          ![LocalsOf(i)].data = Some(PrepareData(r.studies, r.measure)),
          ![i].at = "prepared",
          ![i].overlapped = @ \/ Overlaps(frames, i)]
  ELSE [frames EXCEPT
          ![i].out = Some(PoolPrepared(Val(frames[LocalsOf(i)].data), r.measure, r.model)),
          ![i].at = "done",
          ![i].overlapped = @ \/ Overlaps(frames, i)]

\* the next statement of invocation i
Stepped(frames, r, i) ==
  IF r.op = "run_kaplan_meier"
  THEN KaplanMeierStep(frames, r, i, UniqueGroups(r.groups))
  ELSE MetaStep(frames, r, i)

----------------------------------------------------------------------------
(* The requests. *)

GroupLabels == {1, 2, 3}
Times == 0..MaxTime
EventFlags == {0, 1}

\* _km_estimate on the observations of one curve
CallKmEstimate ==
  /\ pc = "idle"
  /\ \E k \in 0..MaxKmObs :
       \E time \in SeqsOfLen(0..MaxKmTime, k), event \in SeqsOfLen(EventFlags, k) :
         /\ req' = [op |-> "_km_estimate", time |-> time, event |-> event]
         /\ res' = KmEstimate(time, event)
  /\ pc' = "km"

\* run_kaplan_meier on any request whose arrays have one length
RunKaplanMeier ==
  /\ pc = "idle"
  /\ \E k \in 0..MaxObs :
       \E time \in SeqsOfLen(Times, k), event \in SeqsOfLen(EventFlags, k) :
         \E groups \in {None, Some(<<>>)} \cup {Some(q) : q \in SeqsOfLen(GroupLabels, k)} :
           /\ req' = [op |-> "run_kaplan_meier", time |-> time, event |-> event,
                      groups |-> groups]
           /\ res' = RunKaplanMeierResult(time, event, groups)
  /\ pc' = "survival"

\* run_kaplan_meier on a two-arm study: arm 1 first, then arm 2
RunKaplanMeierTwoArm ==
  /\ pc = "idle"
  /\ \E k1 \in 0..MaxArmObs, k2 \in 0..MaxArmObs :
       \E t1 \in SeqsOfLen(Times, k1), e1 \in SeqsOfLen(EventFlags, k1),
          t2 \in SeqsOfLen(Times, k2), e2 \in SeqsOfLen(EventFlags, k2) :
         LET groups == Some([i \in 1..(k1 + k2) |-> IF i <= k1 THEN 1 ELSE 2])
         IN /\ req' = [op |-> "run_kaplan_meier", time |-> t1 \o t2,
                       event |-> e1 \o e2, groups |-> groups]
            /\ res' = RunKaplanMeierResult(t1 \o t2, e1 \o e2, groups)
  /\ pc' = "survival"

\* POST /api/epi/two_by_two
TwoByTwo ==
  /\ pc = "idle"
  /\ \E a \in 0..MaxCell, b \in 0..MaxCell, c \in 0..MaxCell, d \in 0..MaxCell :
       /\ req' = [op |-> "two_by_two", a |-> a, b |-> b, c |-> c, d |-> d]
       /\ res' = TwoByTwoHandler(a, b, c, d)
  /\ pc' = "two_by_two"

Lengths == (LogisticMinObs - 1)..(LogisticMinObs + LenSlack)

\* POST /api/epi/logistic
Logistic ==
  /\ pc = "idle"
  /\ \E n_out \in Lengths, k \in 0..MaxPredictors, fit \in FitKinds :
       \E cols \in SeqsOfLen(Lengths, k) :
         /\ req' = [op |-> "logistic", n_out |-> n_out, cols |-> cols, fit |-> fit]
         /\ res' = LogisticHandler(n_out, cols, fit)
  /\ pc' = "logistic"

\* the studies a request may carry: pre-computed (yi, sei) pairs, and a
\* record of no known shape
EffectStudies ==
  {[name |-> "s", yi |-> y, sei |-> e] : y \in 0..MaxYi, e \in 0..MaxSei}
    \cup {[name |-> "s"]}

\* event-count studies: one arm of ArmSize and one a subject short of it,
\* each with any number of events up to its size
ArmPairs == {<<ArmSize - 1, ArmSize>>, <<ArmSize, ArmSize - 1>>}
TableStudies ==
  UNION {{[name |-> "s", events_1 |-> e1, n_1 |-> n[1], events_2 |-> e2, n_2 |-> n[2]] :
            e1 \in 0..n[1], e2 \in 0..n[2]} : n \in ArmPairs}

\* run_meta_analysis called directly
CallRunMetaAnalysis ==
  /\ pc = "idle"
  /\ \E k \in 0..MaxStudies, measure \in {"OR", "MD"}, model \in {"fixed", "random"} :
       \E studies \in SeqsOfLen(EffectStudies, k) :
         /\ req' = [op |-> "run_meta_analysis", studies |-> studies,
                    measure |-> measure, model |-> model]
         /\ res' = RunMetaAnalysis(studies, measure, model)
  /\ pc' = "meta"

\* POST /api/meta/analyze
MetaAnalyze ==
  /\ pc = "idle"
  /\ \E k \in 0..MaxStudies, measure \in {"OR", "MD"}, model \in {"fixed", "random"} :
       \E studies \in SeqsOfLen(EffectStudies, k) :
         /\ req' = [op |-> "analyze", studies |-> studies,
                    measure |-> measure, model |-> model]
         /\ res' = MetaHandler(studies, measure, model)
  /\ pc' = "meta_analyze"

\* _prepare_data on event-count studies
CallPrepareData ==
  /\ pc = "idle"
  /\ \E k \in 0..MaxTables, measure \in {"OR", "RR", "MD"} :
       \E studies \in SeqsOfLen(TableStudies, k) :
         /\ req' = [op |-> "_prepare_data", studies |-> studies, measure |-> measure]
         /\ res' = PrepareData(studies, measure)
  /\ pc' = "prepare"

Values == 0..MaxValue
Proportions == {Rat(i, PSteps) : i \in 0..PSteps}
Ratios == 0..MaxRatio

\* run_sample_size called directly, the test name free
CallRunSampleSize ==
  /\ pc = "idle"
  /\ \E test \in SampleSizeModes \cup {"anova"}, effect_size \in OptionOf(Values),
        mean1 \in OptionOf(Values), mean2 \in OptionOf(Values), sd \in OptionOf(Values),
        p1 \in OptionOf(Proportions), p2 \in OptionOf(Proportions), ratio \in Ratios :
       /\ req' = [op |-> "run_sample_size", test |-> test, effect_size |-> effect_size,
                  mean1 |-> mean1, mean2 |-> mean2, sd |-> sd, p1 |-> p1, p2 |-> p2,
                  ratio |-> ratio]
       /\ res' = RunSampleSize(test, effect_size, mean1, mean2, sd, p1, p2, ratio)
  /\ pc' = "run_sample_size"

\* POST /api/clinical/sample_size
SampleSize ==
  /\ pc = "idle"
  /\ \E test \in SampleSizeModes, effect_size \in OptionOf(Values),
        mean1 \in OptionOf(Values), mean2 \in OptionOf(Values), sd \in OptionOf(Values),
        p1 \in OptionOf(Proportions), p2 \in OptionOf(Proportions), ratio \in Ratios :
       /\ req' = [op |-> "sample_size", test |-> test, effect_size |-> effect_size,
                  mean1 |-> mean1, mean2 |-> mean2, sd |-> sd, p1 |-> p1, p2 |-> p2,
                  ratio |-> ratio]
       /\ res' = SampleSizeHandler(test, effect_size, mean1, mean2, sd, p1, p2, ratio)
  /\ pc' = "sample_size"

Markers == 0..MaxMarker
Directions == {"high", "low"}

\* _threshold_performance called directly
CallThresholdPerformance ==
  /\ pc = "idle"
  /\ \E n \in 0..MaxPerfObs, t \in Markers, direction \in Directions :
       \E y \in SeqsOfLen({0, 1}, n), marker \in SeqsOfLen(Markers, n) :
         /\ req' = [op |-> "_threshold_performance", y |-> y, marker |-> marker,
                    threshold |-> t, direction |-> direction]
         /\ res' = Returned(ThresholdPerformance(y, marker, Fin(RInt(t)), direction))
  /\ pc' = "threshold_performance"

\* outcomes of zeros and ones in which both occur, as the router admits them
BothClasses(n) == {y \in SeqsOfLen({0, 1}, n) : \E i, k \in 1..n : y[i] = 1 /\ y[k] = 0}

SklearnTops == {"inf", "max_plus_one"}

\* the marker values of n observations listed in ascending order: the
\* analysis sorts and counts, so the order of the observations is immaterial
AscendingSeqs(S, n) == {s \in SeqsOfLen(S, n) : \A i \in 1..(n - 1) : s[i] <= s[i + 1]}

\* run_roc_analysis on an outcome with both classes
CallRunRocAnalysis ==
  /\ pc = "idle"
  /\ \E n \in 2..MaxRocObs, direction \in Directions, sklearn \in SklearnTops,
        threshold \in {None, Some(1)} :
       \E y \in BothClasses(n), marker \in AscendingSeqs(Markers, n) :
         /\ req' = [op |-> "run_roc_analysis", y |-> y, marker |-> marker,
                    threshold |-> threshold, direction |-> direction,
                    sklearn |-> sklearn]
         /\ res' = Returned(RunRocAnalysis(marker, y, threshold, direction, sklearn))
  /\ pc' = "run_roc_analysis"

\* a group: one observation, or two of which the first is 0
GroupChoices == {<<v>> : v \in 0..MaxGroupValue} \cup {<<0, v>> : v \in 0..MaxGroupValue}

\* the answers of scipy to a call of run_anova
ScipyAnswers ==
  [p_value : {[n |-> 1, d |-> 40], Alpha, NaN},
   range : {"ok", "fails", "fails_first"},
   p_pair : {[n |-> 1, d |-> 40], [n |-> 1, d |-> 2]}]

\* run_anova called directly
CallRunAnova ==
  /\ pc = "idle"
  /\ \E k \in 2..MaxGroups, sc \in ScipyAnswers :
       \E groups \in SeqsOfLen(GroupChoices, k) :
         /\ req' = [op |-> "run_anova", groups |-> groups, scipy |-> sc]
         /\ res' = RunAnova(groups, sc)
  /\ pc' = "run_anova"

\* a table of r rows: the first row free, every other row filled with b
TableOf(first, b, r) == [i \in 1..r |-> IF i = 1 THEN first ELSE [j \in DOMAIN first |-> b]]

\* run_chi_square called directly
CallRunChiSquare ==
  /\ pc = "idle"
  /\ \E r \in 2..MaxDim, c \in 2..MaxDim, b \in 0..MaxChiCell, yates \in BOOLEAN :
       \E first \in SeqsOfLen(0..MaxChiCell, c) :
         /\ req' = [op |-> "run_chi_square", observed |-> TableOf(first, b, r),
                    yates_correction |-> yates]
         /\ res' = RunChiSquare(TableOf(first, b, r), yates)
  /\ pc' = "run_chi_square"

\* groups of one to MaxGroups observations (run_ttest)
TtestGroups == UNION {SeqsOfLen(0..MaxGroupValue, n) : n \in 1..MaxGroups}
ScipyPs == {[n |-> 1, d |-> 40], [n |-> 1, d |-> 2], NaN}

\* POST /api/clinical/ttest
Ttest ==
  /\ pc = "idle"
  /\ \E a \in TtestGroups, b \in TtestGroups, paired \in BOOLEAN, p_value \in ScipyPs :
       /\ req' = [op |-> "ttest", group1 |-> a, group2 |-> b, paired |-> paired,
                  scipy |-> [p_value |-> p_value]]
       /\ res' = TtestHandler(a, b, paired, p_value)
  /\ pc' = "ttest"

\* POST /api/clinical/anova
Anova ==
  /\ pc = "idle"
  /\ \E k \in 1..MaxGroups, sc \in ScipyAnswers :
       \E groups \in SeqsOfLen(GroupChoices, k) :
         /\ req' = [op |-> "anova", groups |-> groups, scipy |-> sc]
         /\ res' = AnovaHandler(groups, sc)
  /\ pc' = "anova"

\* POST /api/clinical/chi_square
ChiSquare ==
  /\ pc = "idle"
  /\ \E r \in 1..MaxDim, c \in 1..MaxDim, b \in 0..MaxChiCell, yates \in BOOLEAN :
       \E first \in SeqsOfLen(0..MaxChiCell, c) :
         /\ req' = [op |-> "chi_square", observed |-> TableOf(first, b, r),
                    yates_correction |-> yates]
         /\ res' = ChiSquareHandler(TableOf(first, b, r), yates)
  /\ pc' = "chi_square"

\* POST /api/biomarker/roc, on lists of RocMinObs - 1 or RocMinObs values
Roc ==
  /\ pc = "idle"
  /\ \E n_m \in (RocMinObs - 1)..RocMinObs, n_o \in (RocMinObs - 1)..RocMinObs,
        direction \in Directions, sklearn \in SklearnTops :
       \E marker \in AscendingSeqs(Markers, n_m), outcome \in SeqsOfLen({0, 1, 2}, n_o) :
         /\ req' = [op |-> "roc", marker |-> marker, outcome |-> outcome,
                    direction |-> direction, sklearn |-> sklearn]
         /\ res' = RocHandler(marker, outcome, None, direction, sklearn)
  /\ pc' = "roc"

\* POST /api/survival/analyze
SurvivalAnalyze ==
  /\ pc = "idle"
  /\ \E k_t \in 0..MaxObs, k_e \in 0..MaxObs, k_g \in 0..MaxObs :
       \E time \in SeqsOfLen((0 - 1)..MaxTime, k_t), event \in SeqsOfLen({0, 1, 2}, k_e),
          groups \in {None} \cup {Some(g) : g \in SeqsOfLen({1, 2}, k_g)} :
         /\ req' = [op |-> "survival_analyze", time |-> time, event |-> event,
                    groups |-> groups]
         /\ res' = SurvivalHandler(time, event, groups)
  /\ pc' = "survival_analyze"

EventCounts == (0 - 1)..MaxEvents
PersonTimes == 0..MaxPersonTime

\* run_incidence_rate called directly
CallRunIncidenceRate ==
  /\ pc = "idle"
  /\ \E events \in EventCounts, person_time \in PersonTimes,
        c_events \in OptionOf(EventCounts), c_time \in OptionOf(PersonTimes) :
       /\ req' = [op |-> "run_incidence_rate", events |-> events,
                  person_time |-> person_time, comparison_events |-> c_events,
                  comparison_person_time |-> c_time]
       /\ res' = RunIncidenceRate(events, person_time, c_events, c_time)
  /\ pc' = "run_incidence_rate"

\* POST /api/epi/incidence_rate
IncidenceRate ==
  /\ pc = "idle"
  /\ \E events \in EventCounts, person_time \in PersonTimes,
        c_events \in OptionOf(EventCounts), c_time \in OptionOf(PersonTimes) :
       /\ req' = [op |-> "incidence_rate", events |-> events,
                  person_time |-> person_time, comparison_events |-> c_events,
                  comparison_person_time |-> c_time]
       /\ res' = IncidenceRateHandler(events, person_time, c_events, c_time)
  /\ pc' = "incidence_rate"

\* survival calls of up to MaxPairObs observations at the times 1, 2, ...:
\* no groups, one group, or a group for every observation
PairGroups(k) == {None, Some([i \in 1..k |-> 1]), Some([i \in 1..k |-> i])}
KaplanMeierCalls ==
  UNION {{[op |-> "run_kaplan_meier", time |-> [i \in 1..k |-> i], event |-> event,
           groups |-> groups] : event \in SeqsOfLen(EventFlags, k), groups \in PairGroups(k)} :
         k \in 0..MaxPairObs}

\* meta-analysis calls of up to MaxPairStudies studies, with or without an
\* effect
PairStudies == {[name |-> "s", yi |-> 1, sei |-> 1], [name |-> "s", yi |-> 0, sei |-> 2],
                [name |-> "s"]}
MetaCalls ==
  UNION {{[op |-> "run_meta_analysis", studies |-> studies, measure |-> "MD",
           model |-> "random"] : studies \in SeqsOfLen(PairStudies, k)} :
         k \in 0..MaxPairStudies}

\* two invocations begin
StartPair ==
  /\ pc = "idle"
  /\ \E r1 \in KaplanMeierCalls \cup MetaCalls, r2 \in KaplanMeierCalls \cup MetaCalls :
       /\ req' = <<r1, r2>>
       /\ res' = <<NewFrame, NewFrame>>
  /\ pc' = "pair"

\* one of the two executes its next statement
StepInvocation ==
  /\ pc = "pair"
  /\ \E i \in {1, 2} :
       /\ res[i].at # "done"
       /\ res' = Stepped(res, req[i], i)
  /\ UNCHANGED <<pc, req>>

\* run_ttest called directly
CallRunTtest ==
  /\ pc = "idle"
  /\ \E a \in TtestGroups, b \in TtestGroups, paired \in BOOLEAN, p_value \in ScipyPs :
       /\ req' = [op |-> "run_ttest", group1 |-> a, group2 |-> b, paired |-> paired,
                  scipy |-> [p_value |-> p_value]]
       /\ res' = RunTtest(a, b, paired, p_value)
  /\ pc' = "run_ttest"

\* a study dict that carries every key of the three shapes
FullStudy ==
  [name |-> "s", yi |-> 1, sei |-> 1, effect |-> 2, lower_ci |-> 1, upper_ci |-> 3,
   events_1 |-> 1, n_1 |-> ArmSize, events_2 |-> 1, n_2 |-> ArmSize - 1]

\* the study dict with the keys K
StudyWith(K) == [k \in K |-> FullStudy[k]]

\* the keys of a study: of each shape all of them, some of them or none,
\* with a name or without
ShapeKeys ==
  {Y \cup E \cup T \cup N :
     Y \in {{}, {"yi"}, {"yi", "sei"}},
     E \in {{}, {"effect", "lower_ci"}, {"effect", "lower_ci", "upper_ci"}},
     T \in {{}, {"events_1", "n_1"}, {"events_1", "n_1", "events_2", "n_2"}},
     N \in {{"name"}}}
    \cup {{}, {"yi", "sei"}}
ShapedStudies == {StudyWith(K) : K \in ShapeKeys}

\* the studies of a call of run_meta_analysis: one of each shape, one of two
\* shapes at once, and two of no shape
PooledShapes ==
  {StudyWith(K) : K \in {{"name", "yi", "sei"},
                         {"name", "effect", "lower_ci", "upper_ci"},
                         {"name", "yi", "sei", "effect", "lower_ci", "upper_ci"},
                         {"name", "events_1", "n_1", "events_2", "n_2"},
                         {"name", "yi", "lower_ci", "upper_ci"},
                         {"name"}}}

\* _prepare_data on studies that carry several shapes, part of one, or none
CallPrepareDataShaped ==
  /\ pc = "idle"
  /\ \E k \in 0..MaxShapedPrepared, measure \in {"OR", "RR", "MD"} :
       \E studies \in SeqsOfLen(ShapedStudies, k) :
         /\ req' = [op |-> "_prepare_data", studies |-> studies, measure |-> measure]
         /\ res' = PrepareData(studies, measure)
  /\ pc' = "prepare_shaped"

\* run_meta_analysis of mean differences on studies of several shapes
CallRunMetaAnalysisShaped ==
  /\ pc = "idle"
  /\ \E k \in 0..MaxShapedStudies, model \in {"fixed", "random"} :
       \E studies \in SeqsOfLen(PooledShapes, k) :
         /\ req' = [op |-> "run_meta_analysis", studies |-> studies,
                    measure |-> "MD", model |-> model]
         /\ res' = RunMetaAnalysis(studies, "MD", model)
  /\ pc' = "meta_shaped"

\* POST /api/meta/analyze with studies of several shapes
MetaAnalyzeShaped ==
  /\ pc = "idle"
  /\ \E k \in 0..MaxShapedStudies, model \in {"fixed", "random"} :
       \E studies \in SeqsOfLen(PooledShapes, k) :
         /\ req' = [op |-> "analyze", studies |-> studies,
                    measure |-> "MD", model |-> model]
         /\ res' = MetaHandler(studies, "MD", model)
  /\ pc' = "meta_analyze_shaped"

\* the response is returned and the request forgotten
Return ==
  /\ pc # "idle"
  /\ pc' = "idle"
  /\ req' = None
  /\ res' = None

Init ==
  /\ pc = "idle"
  /\ req = None
  /\ res = None

NextEpi == TwoByTwo \/ Logistic \/ Return
SpecEpi == Init /\ [][NextEpi]_vars

NextMeta == CallRunMetaAnalysis \/ MetaAnalyze \/ Return
SpecMeta == Init /\ [][NextMeta]_vars

NextPrepare == CallPrepareData \/ Return
SpecPrepare == Init /\ [][NextPrepare]_vars

NextSample == CallRunSampleSize \/ SampleSize \/ Return
SpecSample == Init /\ [][NextSample]_vars

NextPerf == CallThresholdPerformance \/ Return
SpecPerf == Init /\ [][NextPerf]_vars

NextRoc == CallRunRocAnalysis \/ Return
SpecRoc == Init /\ [][NextRoc]_vars

NextAnova == CallRunAnova \/ Return
SpecAnova == Init /\ [][NextAnova]_vars

NextChi == CallRunChiSquare \/ Return
SpecChi == Init /\ [][NextChi]_vars

NextRouters ==
  \/ TwoByTwo \/ Logistic \/ MetaAnalyze
  \/ Ttest \/ Anova \/ ChiSquare \/ Roc \/ SurvivalAnalyze
  \/ Return
SpecRouters == Init /\ [][NextRouters]_vars

NextIncidence == CallRunIncidenceRate \/ IncidenceRate \/ Return
SpecIncidence == Init /\ [][NextIncidence]_vars

NextPair == StartPair \/ StepInvocation \/ Return
SpecPair == Init /\ [][NextPair]_vars

NextTtest == CallRunTtest \/ Ttest \/ Return
SpecTtest == Init /\ [][NextTtest]_vars

NextShaped == CallPrepareDataShaped \/ CallRunMetaAnalysisShaped \/ MetaAnalyzeShaped \/ Return
SpecShaped == Init /\ [][NextShaped]_vars

NextKm == CallKmEstimate \/ Return
SpecKm == Init /\ [][NextKm]_vars

NextSurv == RunKaplanMeier \/ Return
SpecSurv == Init /\ [][NextSurv]_vars

NextTwoArm == RunKaplanMeierTwoArm \/ Return
SpecTwoArm == Init /\ [][NextTwoArm]_vars

Next ==
  \/ TwoByTwo \/ Logistic
  \/ CallRunMetaAnalysis \/ MetaAnalyze \/ CallPrepareData
  \/ CallKmEstimate \/ RunKaplanMeier \/ RunKaplanMeierTwoArm
  \/ CallRunSampleSize \/ SampleSize
  \/ CallThresholdPerformance
  \/ CallRunRocAnalysis
  \/ CallRunAnova
  \/ CallRunChiSquare
  \/ Ttest \/ Anova \/ ChiSquare \/ Roc \/ SurvivalAnalyze
  \/ CallRunIncidenceRate \/ IncidenceRate
  \/ StartPair \/ StepInvocation
  \/ CallRunTtest
  \/ CallPrepareDataShaped \/ CallRunMetaAnalysisShaped \/ MetaAnalyzeShaped
  \/ Return
Spec == Init /\ [][Next]_vars

----------------------------------------------------------------------------
(* Epidemiology: what the claims speak of. *)

\* C1: for every 2x2 table of non-negative counts that are not all zero
\* run_two_by_two returns without raising; the odds ratio (value and CI) is
\* None whenever a, b, c or d is zero, the relative risk (value and CI) is
\* None whenever a or c is zero, and no ZeroDivisionError leaves the call.
C1_TwoByTwoReturns ==
  (pc = "two_by_two" /\ res.core_called) =>
    /\ IsNone(res.exc)
    /\ res.status = 200
    /\ (req.a = 0 \/ req.b = 0 \/ req.c = 0 \/ req.d = 0) =>
         /\ IsNone(Val(res.body).odds_ratio.value)
         /\ IsNone(Val(res.body).odds_ratio.ci_95)
    /\ (req.a = 0 \/ req.c = 0) =>
         /\ IsNone(Val(res.body).relative_risk.value)
         /\ IsNone(Val(res.body).relative_risk.ci_95)

\* C7: run_logistic_regression never raises, and whenever the fit does not
\* converge or fails it returns the degraded result: the input size n and a
\* failure reason, and no coefficient table.
C7_LogisticNeverRaises ==
  (pc = "logistic" /\ res.core_called) =>
    /\ IsNone(res.exc)
    /\ req.fit # "converged" =>
         /\ Val(res.body).n = req.n_out
         /\ ~IsNone(Val(res.body).error)
         /\ IsNone(Val(res.body).coefficients)

----------------------------------------------------------------------------
(* Meta-analysis: what the claims speak of. *)

MetaDone == pc = "meta"
PrepareDone == pc = "prepare"

\* the studies of a request that carry a known shape
Recognised(studies) ==
  {i \in DOMAIN studies :
     \/ {"yi", "sei"} \subseteq DOMAIN studies[i]
     \/ {"effect", "lower_ci", "upper_ci"} \subseteq DOMAIN studies[i]
     \/ {"events_1", "n_1", "events_2", "n_2"} \subseteq DOMAIN studies[i]}

\* C8: run_meta_analysis raises ValueError (a 400 of the router) and pools
\* nothing whenever fewer than 2 studies are available for pooling, and with
\* 2 or more it always returns a result.
C8_TwoStudiesRequired ==
  /\ MetaDone =>
       IF Cardinality(Recognised(req.studies)) < 2
       THEN res.exc = Some("ValueError") /\ IsNone(res.out)
       ELSE IsNone(res.exc) /\ ~IsNone(res.out)
  /\ (pc = "meta_analyze" /\ res.core_called) =>
       IF Cardinality(Recognised(req.studies)) < 2
       THEN res.exc = Some("ValueError") /\ IsNone(res.body) /\ res.status = 400
       ELSE IsNone(res.exc) /\ ~IsNone(res.body) /\ res.status = 200

\* the 2x2 table of an event-count study, as exact counts
RawCells(s) ==
  [a |-> s.events_1, b |-> s.n_1 - s.events_1,
   c |-> s.events_2, d |-> s.n_2 - s.events_2]
HasZeroCell(s) ==
  LET t == RawCells(s) IN t.a = 0 \/ t.b = 0 \/ t.c = 0 \/ t.d = 0
\* twice the cells the study is analysed with, were the rule followed
TwiceExpectedCells(s) ==
  LET t == RawCells(s)
      k == IF HasZeroCell(s) THEN 1 ELSE 0
  IN [a |-> 2 * t.a + k, b |-> 2 * t.b + k, c |-> 2 * t.c + k, d |-> 2 * t.d + k]
Halved(t) == [a |-> Rat(t.a, 2), b |-> Rat(t.b, 2), c |-> Rat(t.c, 2), d |-> Rat(t.d, 2)]

\* C9: for a study given as event counts, _prepare_data adds 0.5 to all four
\* cells a, b, c, d exactly when one of the four is zero and uses all four
\* uncorrected otherwise, whatever the other studies of the call are; the
\* log odds ratio of the study is the one of those cells.
C9_ContinuityCorrection ==
  (PrepareDone /\ req.measure \in {"OR", "RR"}) =>
    /\ IsNone(res.exc)
    /\ Len(Val(res.out)) = Len(req.studies)
    /\ \A i \in DOMAIN req.studies :
         LET e == TwiceExpectedCells(req.studies[i])
             got == Val(res.out)[i]
         IN /\ Val(got.cells) = Halved(e)
            /\ req.measure = "OR" => got.yi = LogOf(Rat(e.a * e.d, e.b * e.c))
            /\ req.measure = "RR" =>
                 got.yi = LogOf(Rat(e.a * (e.c + e.d), e.c * (e.a + e.b)))

C9_Witness ==
  /\ PrepareDone /\ req.measure = "OR" /\ IsNone(res.exc)
  /\ Len(req.studies) = 2
  /\ HasZeroCell(req.studies[1]) /\ ~HasZeroCell(req.studies[2])
  /\ req.studies[1].events_1 = req.studies[1].n_1
  /\ req.studies[1].events_2 \in 1..(req.studies[1].n_2 - 1)
  /\ Val(Val(res.out)[1].cells).b = [n |-> 1, d |-> 2]
  /\ Val(Val(res.out)[2].cells).b = RInt(req.studies[2].n_1 - req.studies[2].events_1)

\* the call pooled at least two studies, all of positive standard error
PooledPositive ==
  /\ MetaDone /\ IsNone(res.exc)
  /\ Len(req.studies) >= 2
  /\ \A i \in DOMAIN req.studies :
       "sei" \in DOMAIN req.studies[i] /\ req.studies[i].sei > 0

\* Cochran's Q of the request, from its yi and sei
QOfRequest ==
  LET K == DOMAIN req.studies
      w == [i \in K |-> Rat(1, req.studies[i].sei * req.studies[i].sei)]
      sw == RSum(w)
      m == RDiv(RSum([i \in K |-> RMul(w[i], RInt(req.studies[i].yi))]), sw)
  IN RSum([i \in K |-> RMul(w[i], RMul(RSub(RInt(req.studies[i].yi), m),
                                        RSub(RInt(req.studies[i].yi), m)))])

\* C10: for >= 2 studies of positive standard error, with df = k - 1,
\* I2 = max(0, (Q - df) / Q * 100), so 0 <= I2 < 100 and I2 = 0 whenever
\* Q <= df (Q = 0 included), and tau2 = max(0, (Q - df) / C) >= 0 with
\* tau2 = 0 whenever Q <= df.
C10_Heterogeneity ==
  PooledPositive =>
    LET h == Val(res.out).heterogeneity
        df == RInt(Len(req.studies) - 1)
    IN /\ h.df = Len(req.studies) - 1
       /\ h.Q = QOfRequest
       /\ RLe(R0, h.I2) /\ RLt(h.I2, RInt(100))
       /\ RLe(R0, h.tau2)
       /\ RLt(R0, h.C)
       /\ h.tau2 = RMax(R0, RDiv(RSub(h.Q, df), h.C))
       /\ IF RLe(h.Q, df)
          THEN h.I2 = R0 /\ h.tau2 = R0
          ELSE h.I2 = RMul(RDiv(RSub(h.Q, df), h.Q), RInt(100))

C10_Witness ==
  /\ PooledPositive
  /\ RLt(RInt(Val(res.out).heterogeneity.df), Val(res.out).heterogeneity.Q)
  /\ RLt(R0, Val(res.out).heterogeneity.I2)
  /\ RLt(R0, Val(res.out).heterogeneity.tau2)
  /\ \E i, j \in DOMAIN req.studies : req.studies[i].sei # req.studies[j].sei

\* the call returned a pooled result
Pooled == MetaDone /\ IsNone(res.exc)

\* the inverse-variance weights of the request under the between-study
\* variance t2, as percentages of their sum
HasEffect(s) == {"yi", "sei"} \subseteq DOMAIN s
WeightsOfRequest(t2) ==
  LET known == SelectSeq(req.studies, HasEffect)
      w == [i \in DOMAIN known |-> RInv(RAdd(RInt(known[i].sei * known[i].sei), t2))]
  IN [i \in DOMAIN known |-> RMul(RDiv(w[i], RSum(w)), RInt(100))]

ShapeOf(s) ==
  IF {"yi", "sei"} \subseteq DOMAIN s THEN "yi_sei"
  ELSE IF {"effect", "lower_ci", "upper_ci"} \subseteq DOMAIN s THEN "effect_ci"
  ELSE IF {"events_1", "n_1", "events_2", "n_2"} \subseteq DOMAIN s THEN "table"
  ELSE "none"

IsRecognised(s) == ShapeOf(s) # "none"

\* the studies of the request that match a shape, in their order
RecognisedStudies == SelectSeq(req.studies, IsRecognised)

\* an event-count study under a measure other than OR and RR ends the call
TableUnsupported ==
  /\ req.measure \notin {"OR", "RR"}
  /\ \E i \in DOMAIN req.studies : ShapeOf(req.studies[i]) = "table"

\* the entry got is the study s normalised by its first shape
NormalisedAs(got, s, measure) ==
  /\ ShapeOf(s) = "yi_sei" =>
       got.yi = Num(RInt(s.yi)) /\ got.sei = Num(RInt(s.sei)) /\ IsNone(got.cells)
  /\ ShapeOf(s) = "effect_ci" =>
       /\ got.yi = IF measure \in {"OR", "RR"} THEN LogOf(RInt(s.effect))
                   ELSE Num(RInt(s.effect))
       /\ IsNone(got.cells)
  /\ ShapeOf(s) = "table" =>
       got.cells = Some(Cells(s.events_1, s.n_1, s.events_2, s.n_2))

\* the outcome r of run_meta_analysis counts the recognised studies alone
CountsRecognised(exc, out) ==
  IF TableUnsupported \/ Len(RecognisedStudies) < 2
  THEN exc = Some("ValueError") /\ IsNone(out)
  ELSE /\ IsNone(exc)
       /\ Val(out).n_studies = Len(RecognisedStudies)
       /\ Len(Val(out).forest_studies) = Len(RecognisedStudies)
       /\ \A j \in DOMAIN RecognisedStudies :
            Val(out).forest_studies[j].yi =
              IF ShapeOf(RecognisedStudies[j]) = "yi_sei"
              THEN RInt(RecognisedStudies[j].yi)
              ELSE RInt(RecognisedStudies[j].effect)

\* C24: _prepare_data normalises a study by the first shape it matches, in
\* the order (yi, sei), (effect, lower_ci, upper_ci), (events_1, n_1,
\* events_2, n_2), and leaves out, without an error, a study that matches
\* none; n_studies, the forest rows and the two-studies check of
\* run_meta_analysis count the recognised studies alone, which may be fewer
\* than the studies the router admitted.
C24_FirstShapeWins ==
  /\ pc = "prepare_shaped" =>
       IF TableUnsupported THEN res.exc = Some("ValueError")
       ELSE /\ IsNone(res.exc)
            /\ Len(Val(res.out)) = Len(RecognisedStudies)
            /\ \A j \in DOMAIN RecognisedStudies :
                 NormalisedAs(Val(res.out)[j], RecognisedStudies[j], req.measure)
  /\ pc = "meta_shaped" => CountsRecognised(res.exc, res.out)
  /\ (pc = "meta_analyze_shaped" /\ res.core_called) =>
       /\ CountsRecognised(res.exc, res.body)
       /\ res.status = IF IsNone(res.exc) THEN 200 ELSE 400

\* the router admitted three studies, one of them of no shape and one with
\* both (yi, sei) and (effect, lower_ci, upper_ci), and two were pooled
C24_Witness ==
  /\ pc = "meta_analyze_shaped" /\ res.status = 200
  /\ Len(req.studies) = 3
  /\ Val(res.body).n_studies = 2
  /\ \E i \in DOMAIN req.studies : ~IsRecognised(req.studies[i])
  /\ \E j \in DOMAIN RecognisedStudies :
       /\ {"yi", "sei", "effect", "lower_ci", "upper_ci"} \subseteq DOMAIN RecognisedStudies[j]
       /\ Val(res.body).forest_studies[j].yi = RInt(RecognisedStudies[j].yi)

----------------------------------------------------------------------------
(* Clinical: what the claims speak of. *)

\* the request lacks what its mode requires, names no mode, or gives sd = 0
\* in ttest_2samp mode
SampleSizeInvalid ==
  \/ /\ req.test = "ttest_2samp"
     /\ \/ /\ IsNone(req.effect_size)
           /\ IsNone(req.mean1) \/ IsNone(req.mean2) \/ IsNone(req.sd)
        \/ req.sd = Some(0)
  \/ /\ req.test = "proportion_2samp"
     /\ IsNone(req.p1) \/ IsNone(req.p2)
  \/ req.test \notin SampleSizeModes

\* C12: run_sample_size raises ValueError (a 400 of the router) and returns
\* no sample sizes whenever the inputs of the chosen mode are missing, the
\* test is not one of the two modes, or sd = 0 is given in ttest_2samp mode.
C12_SampleSizeValidation ==
  /\ (pc = "run_sample_size" /\ SampleSizeInvalid) =>
       res.exc = Some("ValueError") /\ IsNone(res.out)
  /\ (pc = "sample_size" /\ SampleSizeInvalid) =>
       res.exc = Some("ValueError") /\ IsNone(res.body) /\ res.status = 400

AnovaDone == pc = "run_anova"

\* the entries of posthoc_tukey that compare groups i and j, in either order
EntriesOf(ph, i, j) ==
  {n \in DOMAIN ph : {ph[n].group1, ph[n].group2} = {GroupName(i), GroupName(j)}}

\* C15: run_anova runs the Tukey comparisons exactly when the p-value of the
\* ANOVA is below 0.05 and there are more than two groups; posthoc_tukey then
\* has k(k-1)/2 entries, one for each unordered pair of groups, and is empty
\* otherwise.
C15_TukeyWhenSignificant ==
  AnovaDone =>
    LET out == Val(res.out)
    IN /\ (out.posthoc_tukey # <<>>) <=> (RLt(out.anova_table.p_value, Alpha) /\ out.k > 2)
       /\ out.posthoc_tukey # <<>> =>
            /\ 2 * Len(out.posthoc_tukey) = out.k * (out.k - 1)
            /\ \A i, j \in 1..out.k :
                 i < j => Cardinality(EntriesOf(out.posthoc_tukey, i, j)) = 1

C15_Witness ==
  /\ AnovaDone
  /\ Len(req.groups) > 2
  /\ Len(Val(res.out).posthoc_tukey) >= 3
  /\ \E g \in DOMAIN req.groups : Len(req.groups[g]) = 2

\* the pair of groups compared by the n-th entry
PairOfEntry(n) == Combinations(Len(req.groups))[n]

\* the entry a working studentized range could give for the n-th pair
RangeEntries(n) ==
  {TukeyPass(req.groups, PairOfEntry(n)[1], PairOfEntry(n)[2], n,
             MsWithin(req.groups), sc) : sc \in {a \in ScipyAnswers : a.range = "ok"}}

ChiDone == pc = "run_chi_square" /\ IsNone(res.exc)

\* exactly two rows of exactly two cells
RequestIsTwoByTwo ==
  Len(req.observed) = 2 /\ \A i \in DOMAIN req.observed : Len(req.observed[i]) = 2

\* Pearson's statistic of the request, and the statistic with every
\* |observed - expected| reduced by one half (by itself when below one half)
PearsonOfRequest ==
  RSum([i \in DOMAIN req.observed |->
          RSum([j \in DOMAIN req.observed[1] |->
                  LET ex == Rat(RowSum(req.observed, i) * ColSum(req.observed, j),
                                Total(req.observed))
                      dev == RAbs(RSub(RInt(req.observed[i][j]), ex))
                  IN RDiv(RMul(dev, dev), ex)])])
YatesOfRequest ==
  RSum([i \in DOMAIN req.observed |->
          RSum([j \in DOMAIN req.observed[1] |->
                  LET ex == Rat(RowSum(req.observed, i) * ColSum(req.observed, j),
                                Total(req.observed))
                      dev == RAbs(RSub(RInt(req.observed[i][j]), ex))
                      red == IF RLt(dev, [n |-> 1, d |-> 2]) THEN R0
                             ELSE RSub(dev, [n |-> 1, d |-> 2])
                  IN RDiv(RMul(red, red), ex)])])

\* C17: run_chi_square applies the Yates correction exactly when the table is
\* 2x2 and yates_correction is requested, and returns the Fisher block (odds
\* ratio and p-value) exactly when the table is 2x2; a larger table gets
\* Pearson's uncorrected statistic and fisher_exact null.
C17_YatesAndFisher ==
  ChiDone =>
    LET out == Val(res.out)
    IN /\ out.locals.correction <=> (RequestIsTwoByTwo /\ req.yates_correction)
       /\ out.chi2 = IF RequestIsTwoByTwo /\ req.yates_correction
                     THEN YatesOfRequest ELSE PearsonOfRequest
       /\ IsNone(out.fisher_exact) <=> ~RequestIsTwoByTwo
       /\ ~IsNone(out.fisher_exact) =>
            DOMAIN Val(out.fisher_exact) = {"odds_ratio", "p_value"}

\* a corrected 2x2 table whose statistic differs from Pearson's
C17_Witness ==
  /\ ChiDone
  /\ RequestIsTwoByTwo /\ req.yates_correction
  /\ Val(res.out).chi2 # PearsonOfRequest
  /\ ~IsNone(Val(res.out).fisher_exact)

\* the arguments the claim admits: events >= 0 and person_time > 0, and a
\* second arm, when given, of comparison_events >= 0 and
\* comparison_person_time > 0
IncidenceAdmitted ==
  /\ req.events >= 0 /\ req.person_time > 0
  /\ ~IsNone(req.comparison_events) => Val(req.comparison_events) >= 0
  /\ ~IsNone(req.comparison_person_time) => Val(req.comparison_person_time) > 0

\* C20: for events >= 0 and person_time > 0, with or without a second arm
\* of comparison_events >= 0 and comparison_person_time > 0,
\* run_incidence_rate returns without raising; the lower confidence bound is
\* 0 when events = 0; and a rate ratio whose divisions or logarithm would
\* meet a zero (comparison rate 0, events 0, comparison_events 0) is null.
C20_IncidenceRateReturns ==
  (pc = "run_incidence_rate" /\ IncidenceAdmitted) =>
    /\ IsNone(res.exc)
    /\ req.events = 0 => Val(res.out).ci_95[1].num = Num(R0)
    /\ "comparison" \in DOMAIN Val(res.out) =>
         ((req.events = 0 \/ Val(req.comparison_events) = 0)
            => IsNone(Val(res.out).comparison.irr))

----------------------------------------------------------------------------
(* Concurrency: what the claims speak of. *)

\* what invocation i returns or raises when it runs alone
Alone(i) ==
  IF req[i].op = "run_kaplan_meier"
  THEN RunKaplanMeierResult(req[i].time, req[i].event, req[i].groups)
  ELSE RunMetaAnalysis(req[i].studies, req[i].measure, req[i].model)

\* every invocation that has ended has the outcome it has alone
OutcomesAsAlone ==
  pc = "pair" => \A i \in {1, 2} : res[i].at = "done" => Val(res[i].out) = Alone(i)

\* a statement of one invocation leaves the frame of the other as it was
FramesApart ==
  (pc = "pair" /\ pc' = "pair") => \E i \in {1, 2} : res'[i] = res[i]

\* C19: analysis invocations share no mutable state: of two invocations
\* executed concurrently, in any interleaving of their statements, each ends
\* with the outcome it has when run alone, and no statement of one changes a
\* variable of the other.
C19_NoSharedState == [](OutcomesAsAlone) /\ [][FramesApart]_vars

\* both have ended, each having executed statements while the other was
\* under way, and both were at work: two curves, and a pooled estimate
C19_Witness ==
  /\ pc = "pair"
  /\ res[1].at = "done" /\ res[2].at = "done"
  /\ res[1].overlapped /\ res[2].overlapped
  /\ req[1].op = "run_kaplan_meier" /\ Len(Val(res[1].out).curves) = 2
  /\ req[2].op = "run_meta_analysis" /\ IsNone(Val(res[2].out).exc)

----------------------------------------------------------------------------
(* Routers: what the claims speak of. *)

\* the request breaks a shape constraint of its endpoint
ShapeViolated ==
  \/ /\ pc = "ttest"
     /\ \/ Len(req.group1) < 2 \/ Len(req.group2) < 2
        \/ req.paired /\ Len(req.group1) # Len(req.group2)
  \/ /\ pc = "roc"
     /\ \/ Len(req.marker) # Len(req.outcome)
        \/ Len(req.marker) < 5
        \/ ~(\E i, j \in DOMAIN req.outcome : req.outcome[i] = 1 /\ req.outcome[j] = 0)
  \/ /\ pc = "chi_square"
     /\ Len(req.observed) < 2 \/ \E i \in DOMAIN req.observed : Len(req.observed[i]) < 2
  \/ /\ pc = "logistic"
     /\ req.n_out < 10 \/ \E i \in DOMAIN req.cols : req.cols[i] # req.n_out
  \/ /\ pc = "meta_analyze"
     /\ Len(req.studies) < 2
  \/ /\ pc = "survival_analyze"
     /\ \/ Len(req.time) # Len(req.event)
        \/ ~IsNone(req.groups) /\ Val(req.groups) # <<>>
             /\ Len(Val(req.groups)) # Len(req.time)
        \/ \E i \in DOMAIN req.event : req.event[i] \notin {0, 1}
  \/ /\ pc = "two_by_two"
     /\ \/ req.a < 0 \/ req.b < 0 \/ req.c < 0 \/ req.d < 0
        \/ req.a + req.b + req.c + req.d = 0

\* C18: at every endpoint a request that breaks a shape constraint (lengths
\* that do not match, too few observations, groups, rows or studies, an event
\* flag other than 0 and 1, a negative or all-zero 2x2 table) is answered
\* with a client error and the core function is not called.
C18_ShapeCheckedBeforeCore ==
  ShapeViolated => res.status = 400 /\ ~res.core_called

\* the request has a zero effect in its mode: effect_size = 0, or with no
\* effect_size mean1 = mean2 over a nonzero sd, or p1 = p2
ZeroEffect ==
  \/ /\ req.test = "ttest_2samp"
     /\ \/ ~IsNone(req.effect_size) /\ Val(req.effect_size) = 0
        \/ /\ IsNone(req.effect_size)
           /\ ~IsNone(req.mean1) /\ ~IsNone(req.mean2) /\ ~IsNone(req.sd)
           /\ Val(req.sd) # 0 /\ Val(req.mean1) = Val(req.mean2)
  \/ /\ req.test = "proportion_2samp"
     /\ ~IsNone(req.p1) /\ ~IsNone(req.p2) /\ Val(req.p1) = Val(req.p2)

\* C22: run_sample_size raises nothing but ValueError, and a zero effect
\* (effect_size = 0, mean1 = mean2, p1 = p2) or ratio = 0 ends in ValueError,
\* not in an arithmetic error; a call that returns gives n1, n2 and the ratio
\* they were computed with.
C22_OnlyValidationFailures ==
  pc = "run_sample_size" =>
    /\ IsNone(res.exc) \/ res.exc = Some("ValueError")
    /\ (ZeroEffect \/ (req.test \in SampleSizeModes /\ req.ratio = 0))
         => res.exc = Some("ValueError")
    /\ IsNone(res.exc) => {"n1", "n2"} \subseteq DOMAIN Val(res.out)

\* run_ttest on groups of two observations or more, of one length when paired
TtestAdmitted ==
  /\ pc = "run_ttest"
  /\ Len(req.group1) >= 2 /\ Len(req.group2) >= 2
  /\ req.paired => Len(req.group1) = Len(req.group2)

\* the sum of squares about the mean of the paired differences of the request
PairedSumSq ==
  LET d == [i \in DOMAIN req.group1 |-> req.group1[i] - req.group2[i]]
  IN RSum([i \in DOMAIN d |->
             RMul(RSub(RInt(d[i]), Rat(SumSeq(d), Len(d))),
                  RSub(RInt(d[i]), Rat(SumSeq(d), Len(d))))])

\* C21: run_ttest guards the division of Cohen's d in both modes: for groups
\* of at least two observations the call does not raise, and where the
\* denominator is zero (pooled SD = 0 in the independent mode, SD of the
\* differences = 0 in the paired mode) cohens_d has the fallback value 0.
C21_CohensDGuarded ==
  TtestAdmitted =>
    /\ IsNone(res.exc)
    /\ (~req.paired /\ Constant(req.group1) /\ Constant(req.group2))
         => Val(res.out).cohens_d = Num(R0)
    /\ (req.paired /\ PairedSumSq = R0) => Val(res.out).cohens_d = Num(R0)

----------------------------------------------------------------------------
(* Biomarker: what the claims speak of. *)

PerfDone == pc = "threshold_performance"

PanelFields ==
  {"threshold", "tp", "fp", "tn", "fn", "sensitivity", "specificity", "ppv", "npv",
   "accuracy", "positive_lr", "negative_lr"}

\* the specificity of the request, counted from its observations
SpecificityOfRequest ==
  LET neg == {i \in DOMAIN req.y : req.y[i] = 0}
      called == {i \in DOMAIN req.y :
                   IF req.direction = "high" THEN req.marker[i] >= req.threshold
                   ELSE req.marker[i] <= req.threshold}
  IN IF neg = {} THEN R0 ELSE Rat(Cardinality(neg \ called), Cardinality(neg))

\* C14 as stated: _threshold_performance returns the full panel without
\* raising, the positive likelihood ratio is None when specificity = 0 and a
\* number otherwise, and the negative likelihood ratio is None when
\* specificity = 1 and a number otherwise.
C14_LikelihoodRatiosAsStated ==
  PerfDone =>
    /\ IsNone(res.exc)
    /\ DOMAIN Val(res.out) = PanelFields
    /\ IsNone(Val(res.out).positive_lr) <=> Val(res.out).specificity = R0
    /\ IsNone(Val(res.out).negative_lr) <=> Val(res.out).specificity = R1

\* C14, amended: _threshold_performance returns the full panel without
\* raising; the positive likelihood ratio is None exactly when specificity
\* = 1 and sensitivity / (1 - specificity) otherwise; the negative likelihood
\* ratio is None exactly when specificity = 0 and (1 - sensitivity) /
\* specificity otherwise.
C14_LikelihoodRatios ==
  PerfDone =>
    LET p == Val(res.out)
    IN /\ IsNone(res.exc)
       /\ DOMAIN p = PanelFields
       /\ p.specificity = SpecificityOfRequest
       /\ p.tp + p.fp + p.tn + p.fn = Len(req.y)
       /\ IF p.specificity = R1 THEN IsNone(p.positive_lr)
          ELSE p.positive_lr = Some(RDiv(p.sensitivity, RSub(R1, p.specificity)))
       /\ IF p.specificity = R0 THEN IsNone(p.negative_lr)
          ELSE p.negative_lr = Some(RDiv(RSub(R1, p.sensitivity), p.specificity))

C14_Witness ==
  /\ PerfDone
  /\ Val(res.out).specificity = R1
  /\ IsNone(Val(res.out).positive_lr) /\ ~IsNone(Val(res.out).negative_lr)
  /\ Val(res.out).tp > 0 /\ Val(res.out).fn > 0

RocDone == pc = "run_roc_analysis"

\* the scores of the request on the scale the curve is computed on
EvalScores == {(IF req.direction = "low" THEN 0 - req.marker[i] ELSE req.marker[i]) :
                 i \in DOMAIN req.marker}

\* TPR - FPR of the rule "score >= t", counted from the request
YoudenAt(t) ==
  RSub(Rat(Cardinality({i \in DOMAIN req.y :
                          req.y[i] = 1 /\ MEval(req.marker, req.direction)[i] >= t}),
           Cardinality({i \in DOMAIN req.y : req.y[i] = 1})),
       Rat(Cardinality({i \in DOMAIN req.y :
                          req.y[i] = 0 /\ MEval(req.marker, req.direction)[i] >= t}),
           Cardinality({i \in DOMAIN req.y : req.y[i] = 0})))

\* the threshold of the curve's first point, where TPR = FPR = 0
TopOfRequest ==
  TopThreshold(CHOOSE m \in EvalScores : \A s \in EvalScores : s <= m, req.sklearn)

\* the reported value, taken back to the scale of the curve
ReportedEval ==
  IF req.direction = "low" THEN NegT(Val(res.out).optimal_threshold.value)
  ELSE Val(res.out).optimal_threshold.value

\* C13: the optimal threshold of run_roc_analysis has the largest Youden
\* J = TPR - FPR of all points of the curve (every distinct score, and the
\* point (0, 0) in front of them); of the points that share the largest J it
\* is the first in descending threshold order; and the reported value is that
\* threshold on the scale of the marker, negated back for direction "low".
C13_OptimalThreshold ==
  RocDone =>
    LET o == Val(res.out).optimal_threshold
    IN /\ RLe(R0, o.youden_index)
       /\ \A s \in EvalScores : RLe(YoudenAt(s), o.youden_index)
       /\ IF o.youden_index = R0
          THEN ReportedEval = TopOfRequest
          ELSE \E t \in EvalScores :
                 /\ ReportedEval = Fin(RInt(t))
                 /\ YoudenAt(t) = o.youden_index
                 /\ \A s \in EvalScores : s > t => RLt(YoudenAt(s), o.youden_index)
       /\ o.threshold = o.value

\* direction "low", two scores share the largest J, and the larger is reported
C13_Witness ==
  /\ RocDone
  /\ req.direction = "low"
  /\ RLt(R0, Val(res.out).optimal_threshold.youden_index)
  /\ \E s, t \in EvalScores :
       /\ s < t
       /\ YoudenAt(s) = Val(res.out).optimal_threshold.youden_index
       /\ YoudenAt(t) = Val(res.out).optimal_threshold.youden_index
       /\ ReportedEval = Fin(RInt(t))
       /\ Val(res.out).optimal_threshold.value = Fin(RInt(0 - t))

\* C23: in a result of run_roc_analysis, for direction "high" and "low", the
\* panel of the optimal threshold is that of the point of the curve at which
\* it was chosen: its sensitivity is the point's TPR and its specificity is
\* 1 - FPR, so youden_index = sensitivity + specificity - 1, and the four
\* counts add up to the number of observations.
C23_PanelAgreesWithPoint ==
  RocDone =>
    LET out == Val(res.out)
        o == Val(res.out).optimal_threshold
        k == Val(res.out).locals.opt_idx
    IN /\ o.sensitivity = out.roc_curve.tpr[k]
       /\ o.specificity = RSub(R1, out.roc_curve.fpr[k])
       /\ o.youden_index = RSub(RAdd(o.sensitivity, o.specificity), R1)
       /\ o.youden_index = YoudenAt(IF ReportedEval.inf = 0 THEN ReportedEval.v.n
                                    ELSE MaxMarker + 1)
       /\ o.tp + o.fp + o.tn + o.fn = Len(req.y)
       /\ o.tp + o.fn = out.n_positive /\ o.tn + o.fp = out.n_negative

\* direction "low": the chosen point has a positive J with a false positive,
\* at a threshold below zero on the scale of the curve
C23_Witness ==
  /\ RocDone
  /\ req.direction = "low"
  /\ RLt(R0, Val(res.out).optimal_threshold.youden_index)
  /\ Val(res.out).optimal_threshold.fp > 0
  /\ Val(res.out).optimal_threshold.tp > 0
  /\ ReportedEval.inf = 0 /\ ReportedEval.v.n < 0

----------------------------------------------------------------------------
(* Survival: what the claims speak of. *)

KmDone == pc = "km"
SurvDone == pc = "survival"

\* the distinct times of the call's observations that carry an event
EventTimesOfCall == {req.time[i] : i \in {j \in DOMAIN req.time : req.event[j] = 1}}

\* d and n of the claims at time x: the events at x, and the observations
\* (censored ones included) whose time is >= x
DeathsAt(x) == Cardinality({i \in DOMAIN req.time : req.time[i] = x /\ req.event[i] = 1})
AtRiskAt(x) == Cardinality({i \in DOMAIN req.time : req.time[i] >= x})

\* the curve starts at (0, 1), each later step multiplies the survival by
\* (n - d) / n, and the survival is non-increasing within [0, 1]
KmProductLimit ==
  /\ Len(res.times) = Len(res.survival)
  /\ res.times[1] = 0
  /\ res.survival[1] = R1
  /\ \A j \in 2..Len(res.survival) :
       LET n == AtRiskAt(res.times[j])
           d == DeathsAt(res.times[j])
       IN /\ n > 0
          /\ res.survival[j] = RMul(res.survival[j - 1], Rat(n - d, n))
          /\ RLe(res.survival[j], res.survival[j - 1])
  /\ \A j \in 1..Len(res.survival) :
       RLe(R0, res.survival[j]) /\ RLe(res.survival[j], R1)

\* C2 as stated: the curve of _km_estimate starts with survival 1 at time 0,
\* multiplies by (n-d)/n at each step, is non-increasing within [0,1], and
\* has strictly increasing step times (the initial time 0 included).
C2_StepTimesStrictlyIncreasing ==
  KmDone =>
    /\ KmProductLimit
    /\ \A j \in 2..Len(res.times) : res.times[j - 1] < res.times[j]

\* C2 as amended: the same product-limit curve, whose step times after the
\* initial point are strictly increasing; the initial time 0 is strictly
\* below the first step exactly when no event is at a time <= 0.
C2_KmCurve ==
  KmDone =>
    /\ KmProductLimit
    /\ \A j \in 3..Len(res.times) : res.times[j - 1] < res.times[j]
    /\ Len(res.times) >= 2 =>
         (res.times[1] < res.times[2] <=> \A x \in EventTimesOfCall : x > 0)

\* C2's case: two steps at positive times, the survival dropping at each
\* and staying positive
C2_Witness ==
  /\ KmDone
  /\ Len(res.times) = 3
  /\ res.times[2] > 0
  /\ RLt(R0, res.survival[3])
  /\ RLt(res.survival[3], res.survival[2])
  /\ RLt(res.survival[2], R1)

\* C3: median_survival is the time of the first step whose survival is
\* <= 0.5, and is None exactly when no step has survival <= 0.5.
C3_MedianFirstCrossing ==
  KmDone =>
    LET below == {j \in 1..Len(res.survival) : RLe(res.survival[j], Half)}
    IN /\ IsNone(res.median_survival) <=> below = {}
       /\ below # {} => res.median_survival = Some(res.times[Min(below)])

\* C3's case: the survival stays above 0.5 at the first step and reaches
\* exactly 0.5 at the second, with a third step further down
C3_Witness ==
  /\ KmDone
  /\ Len(res.survival) = 4
  /\ RLt(Half, res.survival[2])
  /\ res.survival[3] = Half
  /\ res.median_survival = Some(res.times[3])

\* C4: a censored observation counts in the at-risk number of every event
\* time <= its own time and never creates a step: the steps after the
\* initial point are exactly the distinct times carrying an event, and data
\* with no event yields the single point S(0) = 1 with no median.
C4_CensoredNeverSteps ==
  KmDone =>
    /\ Len(res.times) = 1 + Cardinality(EventTimesOfCall)
    /\ {res.times[j] : j \in 2..Len(res.times)} = EventTimesOfCall
    /\ Len(res.n_at_risk) = Len(res.times) - 1
    /\ Len(res.n_events) = Len(res.times) - 1
    /\ \A j \in 2..Len(res.times) :
         /\ res.n_at_risk[j - 1] = AtRiskAt(res.times[j])
         /\ res.n_events[j - 1] = DeathsAt(res.times[j])
    /\ EventTimesOfCall = {} =>
         /\ res.times = <<0>>
         /\ res.survival = <<R1>>
         /\ IsNone(res.median_survival)

\* C4's case: a censored observation at a time of its own between two event
\* times: at risk at the first event, gone at the second, and no step
C4_Witness ==
  /\ KmDone
  /\ Len(res.times) = 3
  /\ \E i \in DOMAIN req.time :
       /\ req.event[i] = 0
       /\ req.time[i] \notin EventTimesOfCall
       /\ res.times[2] < req.time[i]
       /\ req.time[i] < res.times[3]

\* C5: the log-rank test runs exactly when the group labels take exactly two
\* distinct values (never without groups, with one group or with three);
\* with V < 1e-10 it returns chi2 = 0 and p = 1, and divides by V otherwise.
C5_LogrankTwoGroups ==
  SurvDone =>
    LET labels == IF IsNone(req.groups) THEN {}
                  ELSE {Val(req.groups)[i] : i \in DOMAIN Val(req.groups)}
    IN /\ ~IsNone(res.logrank) <=> Cardinality(labels) = 2
       /\ ~IsNone(res.logrank) =>
            LET lr == Val(res.logrank)
                diff == RSub(lr.locals.O1, lr.locals.E1)
            IN IF LtEps(lr.locals.V)
               THEN lr.chi2 = R0 /\ lr.p_value = [kind |-> "exact", v |-> R1]
               ELSE /\ RLt(R0, lr.locals.V)
                    /\ lr.chi2 = RDiv(RMul(diff, diff), lr.locals.V)

\* C5's case: two groups with events but no variance (each event time has a
\* single observation at risk), so the fallback answers
C5_Witness ==
  /\ SurvDone
  /\ ~IsNone(res.logrank)
  /\ LtEps(Val(res.logrank).locals.V)
  /\ \E i \in DOMAIN req.event : req.event[i] = 1

\* the two arms of a two-arm request hold the same multiset of (time, event)
ArmsIdentical ==
  LET g == Val(req.groups)
      cnt(a, t, e) == Cardinality({i \in DOMAIN g :
                        g[i] = a /\ req.time[i] = t /\ req.event[i] = e})
  IN /\ \E i \in DOMAIN g : g[i] = 1
     /\ \A t \in Times, e \in EventFlags : cnt(1, t, e) = cnt(2, t, e)

\* C6: for two groups holding identical multisets of (time, event) the
\* log-rank test accumulates O = E for group 1 and reports chi2 = 0, p = 1.
C6_IdenticalGroups ==
  (SurvDone /\ ArmsIdentical) =>
    /\ ~IsNone(res.logrank)
    /\ Val(res.logrank).locals.O1 = Val(res.logrank).locals.E1
    /\ Val(res.logrank).chi2 = R0
    /\ Val(res.logrank).p_value = [kind |-> "exact", v |-> R1]

\* C6's case: identical arms with events and a positive variance, so the
\* statistic is computed by the division and not by the fallback
C6_Witness ==
  /\ SurvDone
  /\ ArmsIdentical
  /\ ~IsNone(res.logrank)
  /\ Val(res.logrank).detailed
  /\ RLt(R0, Val(res.logrank).locals.O1)

=============================================================================
